---- MODULE Spec2Model ----
(***************************************************************************)
(* A model of the conversation/agent resolution and tracking-comment core  *)
(* of letta-code-action.                                                   *)
(*                                                                         *)
(* Text is modelled character by character: a string of the program is a   *)
(* sequence of one-character strings, indices are 0-based as in            *)
(* JavaScript, and the string operations (indexOf, slice, trim, split,     *)
(* join) are computed the way the JavaScript runtime computes them.         *)
(* An optional value (a property that may be undefined) is a sequence of   *)
(* length 0 (absent) or 1 (present).                                       *)
(***************************************************************************)
EXTENDS Integers, Sequences, FiniteSets, TLC

\* ------------------------------------------------------------------------
\* Bounds of the model
\* ------------------------------------------------------------------------

\* The wall clock takes the values 0..MaxClock.
MaxClock == 2

\* At most MaxUpserts calls of updateMetadataInBody on one body.
MaxUpserts == 2

\* At most MaxComments comments on the thread of the event.
MaxComments == 2

\* The most lines of the agent process one invocation reads.
MaxEvents == 1

\* At most MaxTokens tokens between the brackets of a trigger comment.
MaxTokens == 2

\* At most MaxReferences references to issues in a pull request body.
MaxReferences == 2

\* The most invocations that go on to run the agent; a later invocation is
\* followed up to the outputs of tagMode.prepare.
MaxRuns == 1

\* ------------------------------------------------------------------------
\* JavaScript string operations
\* ------------------------------------------------------------------------

\* F(v), with v evaluated once before F is applied to its value.
With(v, F(_)) == CHOOSE r \in {F(x) : x \in {v}} : TRUE

None == << >>

Some(v) == <<v>>

IsSome(o) == Len(o) = 1

Min(a, b) == IF a < b THEN a ELSE b

Max(a, b) == IF a > b THEN a ELSE b

\* String.prototype.slice's index normalisation: a negative index counts
\* from the end, and the result is clamped to 0..length.
ClampIndex(i, n) == IF i < 0 THEN Max(n + i, 0) ELSE Min(i, n)

\* s.slice(from, to)
slice(s, from, to) ==
    LET a == ClampIndex(from, Len(s))
        b == ClampIndex(to, Len(s))
    IN  IF a >= b THEN << >> ELSE SubSeq(s, a + 1, b)

\* s.slice(from)
sliceFrom(s, from) == slice(s, from, Len(s))

\* Whether pat occurs in s at 0-based position i.
MatchAt(s, pat, i) ==
    /\ i >= 0
    /\ i + Len(pat) <= Len(s)
    /\ SubSeq(s, i + 1, i + Len(pat)) = pat

\* s.indexOf(pat, from): the least position >= from where pat occurs, else -1.
indexOfFrom(s, pat, from) ==
    LET start == ClampIndex(Max(from, 0), Len(s))
        hits == {i \in start..(Len(s) - Len(pat)) : MatchAt(s, pat, i)}
    IN  IF hits = {} THEN -1
        ELSE CHOOSE i \in hits : \A j \in hits : i <= j

\* s.indexOf(pat)
indexOf(s, pat) == indexOfFrom(s, pat, 0)

\* s.includes(pat)
includes(s, pat) == indexOf(s, pat) # -1

\* The white space String.prototype.trim removes (of the characters used here).
WhiteSpace == {" ", "\t", "\n", "\r"}

RECURSIVE trimStart(_)
trimStart(s) ==
    IF s # << >> /\ Head(s) \in WhiteSpace THEN trimStart(Tail(s)) ELSE s

RECURSIVE trimEnd(_)
trimEnd(s) ==
    IF s # << >> /\ s[Len(s)] \in WhiteSpace
    THEN trimEnd(SubSeq(s, 1, Len(s) - 1))
    ELSE s

\* s.trim()
trim(s) == trimEnd(trimStart(s))

\* s.split(sep) for a one-character separator: always at least one piece.
RECURSIVE split(_, _)
split(s, sep) ==
    LET i == indexOf(s, <<sep>>)
    IN  IF i = -1 THEN <<s>>
        ELSE <<slice(s, 0, i)>> \o split(sliceFrom(s, i + 1), sep)

\* pieces.join(sep)
RECURSIVE join(_, _)
join(pieces, sep) ==
    IF pieces = << >> THEN << >>
    ELSE IF Len(pieces) = 1 THEN pieces[1]
    ELSE pieces[1] \o sep \o join(Tail(pieces), sep)

\* The number of (possibly overlapping) occurrences of pat in s.
CountOccurrences(s, pat) ==
    Cardinality({i \in 0..(Len(s) - Len(pat)) : MatchAt(s, pat, i)})

\* ------------------------------------------------------------------------
\* Metadata codec
\* ------------------------------------------------------------------------

METADATA_START ==
    <<"<","!","-","-"," ","l","e","t","t","a","-","m","e","t","a","d","a","t","a">>

METADATA_END == <<"-","-",">">>

NL == <<"\n">>

\* new Date().toISOString() when the wall clock reads t (0..9).
Digit(t) == <<"0","1","2","3","4","5","6","7","8","9">>[t + 1]

toISOString(t) ==
    <<"2","0","2","6","-","0","1","-","0","1","T","0","0",":","0","0",":","0",
      Digit(t), "Z">>

\* JavaScript truthiness of an optional string: defined and not empty.
Truthy(opt) == IsSome(opt) /\ opt[1] # << >>

\* formatMetadata(metadata) called when the wall clock reads t. The metadata
\* object may carry any properties; the function reads agentId, model, created.
formatMetadata(metadata, t) ==
    LET l1 == <<<<"a","g","e","n","t","_","i","d",":"," ">> \o metadata.agentId>>
        l2 == IF Truthy(metadata.model)
              THEN Append(l1, <<"m","o","d","e","l",":"," ">> \o metadata.model[1])
              ELSE l1
        l3 == IF Truthy(metadata.created)
              THEN Append(l2, <<"c","r","e","a","t","e","d",":"," ">>
                                \o metadata.created[1])
              ELSE Append(l2, <<"c","r","e","a","t","e","d",":"," ">>
                                \o toISOString(t))
    IN  METADATA_START \o NL \o join(l3, NL) \o NL \o METADATA_END

\* The properties a metadata object is read for by the callers of parseMetadata.
MetadataKeys == {"agentId", "conversationId", "model", "created"}

\* const metadata: Partial<LettaMetadata> = {}
EmptyMetadata == [k \in MetadataKeys |-> None]

\* One pass of parseMetadata's loop body over a line.
parseLine(metadata, line) ==
    LET colonIndex == indexOf(line, <<":">>)
        key == trim(slice(line, 0, colonIndex))
        value == trim(sliceFrom(line, colonIndex + 1))
    IN  IF colonIndex = -1 THEN metadata
        ELSE IF key = <<"a","g","e","n","t","_","i","d">>
             THEN [metadata EXCEPT !["agentId"] = Some(value)]
        ELSE IF key = <<"m","o","d","e","l">>
             THEN [metadata EXCEPT !["model"] = Some(value)]
        ELSE IF key = <<"c","r","e","a","t","e","d">>
             THEN [metadata EXCEPT !["created"] = Some(value)]
        ELSE metadata

RECURSIVE parseLines(_, _)
parseLines(metadata, lines) ==
    IF lines = << >> THEN metadata
    ELSE parseLines(parseLine(metadata, Head(lines)), Tail(lines))

\* parseMetadata(commentBody): None for null, else Some(metadata object).
parseMetadata(commentBody) ==
    LET startIndex == indexOf(commentBody, METADATA_START)
        endIndex == indexOfFrom(commentBody, METADATA_END, startIndex)
        metadataContent ==
            slice(commentBody, startIndex + Len(METADATA_START), endIndex)
        metadata == parseLines(EmptyMetadata, split(trim(metadataContent), "\n"))
    IN  IF startIndex = -1 THEN None
        ELSE IF endIndex = -1 THEN None
        ELSE IF ~Truthy(metadata["agentId"]) THEN None
        ELSE Some(metadata)

\* hasMetadata(commentBody)
hasMetadata(commentBody) == includes(commentBody, METADATA_START)

\* A variant of updateMetadataInBody that never looks for an existing marker.
updateMetadataInBody_AlwaysAppend(body, metadata, t) ==
    body \o NL \o NL \o formatMetadata(metadata, t)

\* updateMetadataInBody(body, metadata) called when the wall clock reads t.
updateMetadataInBody(body, metadata, t) ==
    LET formattedMetadata == formatMetadata(metadata, t)
        startIndex == indexOf(body, METADATA_START)
        endIndex == indexOfFrom(body, METADATA_END, startIndex) + Len(METADATA_END)
    IN  IF hasMetadata(body)
        THEN slice(body, 0, startIndex) \o formattedMetadata \o sliceFrom(body, endIndex)
        ELSE body \o NL \o NL \o formattedMetadata

\* ------------------------------------------------------------------------
\* Run configuration builder
\* ------------------------------------------------------------------------

SP == <<" ">>

FLAG_CONVERSATION == <<"-","-","c","o","n","v","e","r","s","a","t","i","o","n">>

FLAG_AGENT == <<"-","-","a","g","e","n","t">>

FLAG_AGENT_SHORT == <<"-","a">>

FLAG_NEW == <<"-","-","n","e","w">>

FLAG_MODEL == <<"-","m">>

FLAG_YOLO == <<"-","-","y","o","l","o">>

FLAG_PROMPT == <<"-","p">>

FLAG_OUTPUT_FORMAT == <<"-","-","o","u","t","p","u","t","-","f","o","r","m","a","t">>

BASE_ARGS == <<FLAG_OUTPUT_FORMAT, <<"s","t","r","e","a","m","-","j","s","o","n">>>>

QuoteChars == {"\"", "'"}

\* shell-quote's parse, for command lines without shell operators, escapes,
\* variables, globs or comments: white space separates the tokens, single or
\* double quotes group a token and are removed. started says whether a token
\* has begun, inQuote is the open quote character or "".
RECURSIVE shellScan(_, _, _, _, _)
shellScan(s, current, started, inQuote, args) ==
    IF s = << >> THEN (IF started THEN Append(args, current) ELSE args)
    ELSE LET char == Head(s)
             rest == Tail(s)
         IN  IF inQuote # ""
             THEN IF char = inQuote
                  THEN shellScan(rest, current, TRUE, "", args)
                  ELSE shellScan(rest, Append(current, char), TRUE, inQuote, args)
             ELSE IF char \in QuoteChars
             THEN shellScan(rest, current, TRUE, char, args)
             ELSE IF char \in WhiteSpace
             THEN IF started
                  THEN shellScan(rest, << >>, FALSE, "", Append(args, current))
                  ELSE shellScan(rest, current, FALSE, "", args)
             ELSE shellScan(rest, Append(current, char), TRUE, "", args)

\* parseShellArgs(options.lettaArgs), the entries that are strings.
parseShellArgs(s) == shellScan(s, << >>, FALSE, "", << >>)

\* The identity arguments of a variant of prepareRunConfig that prefers the
\* agent over the conversation.
identityArgs_AgentFirst(options) ==
    IF Truthy(options.agentId) /\ options.createNewConversation
    THEN <<FLAG_AGENT, options.agentId[1], FLAG_NEW>>
    ELSE IF Truthy(options.agentId)
    THEN <<FLAG_AGENT, options.agentId[1]>>
    ELSE IF Truthy(options.conversationId)
    THEN <<FLAG_CONVERSATION, options.conversationId[1]>>
    ELSE IF options.createNewConversation
    THEN <<FLAG_NEW>>
    ELSE << >>

\* prepareRunConfig: the conversation/agent flags for resumption.
identityArgs(options) ==
    IF Truthy(options.conversationId)
    THEN <<FLAG_CONVERSATION, options.conversationId[1]>>
    ELSE IF Truthy(options.agentId) /\ options.createNewConversation
    THEN <<FLAG_AGENT, options.agentId[1], FLAG_NEW>>
    ELSE IF Truthy(options.agentId)
    THEN <<FLAG_AGENT, options.agentId[1]>>
    ELSE IF options.createNewConversation
    THEN <<FLAG_NEW>>
    ELSE << >>

\* prepareRunConfig: the user's custom arguments.
customArgs(options) ==
    IF IsSome(options.lettaArgs) /\ trim(options.lettaArgs[1]) # << >>
    THEN parseShellArgs(options.lettaArgs[1])
    ELSE << >>

\* A variant of prepareRunConfig that emits BASE_ARGS before the user's
\* custom arguments.
prepareRunConfig_BaseArgsFirst(options) ==
    identityArgs(options)
        \o (IF Truthy(options.model) THEN <<FLAG_MODEL, options.model[1]>> ELSE << >>)
        \o <<FLAG_YOLO>>
        \o <<FLAG_PROMPT>>
        \o BASE_ARGS
        \o customArgs(options)

\* prepareRunConfig(promptPath, options).lettaArgs
prepareRunConfig(options) ==
    identityArgs(options)
        \o (IF Truthy(options.model) THEN <<FLAG_MODEL, options.model[1]>> ELSE << >>)
        \o <<FLAG_YOLO>>
        \o <<FLAG_PROMPT>>
        \o customArgs(options)
        \o BASE_ARGS

\* ------------------------------------------------------------------------
\* Agent/conversation resolver
\* ------------------------------------------------------------------------

LETTA_APP_BOT_ID == 248085862

GITHUB_ACTIONS_LOGIN ==
    <<"g","i","t","h","u","b","-","a","c","t","i","o","n","s","[","b","o","t","]">>

LowerCaseLetters ==
    <<"a","b","c","d","e","f","g","h","i","j","k","l","m","n","o","p","q","r","s",
      "t","u","v","w","x","y","z">>

UpperCaseLetters ==
    <<"A","B","C","D","E","F","G","H","I","J","K","L","M","N","O","P","Q","R","S",
      "T","U","V","W","X","Y","Z">>

Digits == <<"0","1","2","3","4","5","6","7","8","9">>

IsDigit(c) == \E i \in DOMAIN Digits : Digits[i] = c

\* \w of a regular expression.
IsWordChar(c) ==
    \/ IsDigit(c)
    \/ c = "_"
    \/ \E i \in DOMAIN LowerCaseLetters :
          LowerCaseLetters[i] = c \/ UpperCaseLetters[i] = c

\* s.toLowerCase()
toLowerCase(s) ==
    [i \in 1..Len(s) |->
        IF \E k \in DOMAIN UpperCaseLetters : UpperCaseLetters[k] = s[i]
        THEN LowerCaseLetters[CHOOSE k \in DOMAIN UpperCaseLetters :
                                    UpperCaseLetters[k] = s[i]]
        ELSE s[i]]

\* parseInt(ds, 10) for a string of decimal digits.
RECURSIVE parseInt(_)
parseInt(ds) ==
    IF ds = << >> THEN 0
    ELSE parseInt(SubSeq(ds, 1, Len(ds) - 1)) * 10
         + (CHOOSE i \in DOMAIN Digits : Digits[i] = ds[Len(ds)]) - 1

\* The character of s at 0-based position i, "" past the end.
charAt(s, i) == IF i >= 0 /\ i < Len(s) THEN s[i + 1] ELSE ""

\* The end (exclusive) of the longest run of digits of s that starts at i: \d+
RECURSIVE digitsEnd(_, _)
digitsEnd(s, i) == IF IsDigit(charAt(s, i)) THEN digitsEnd(s, i + 1) ELSE i

\* The end of the longest run of white space of s that starts at i: \s*
RECURSIVE spaceEnd(_, _)
spaceEnd(s, i) == IF charAt(s, i) \in WhiteSpace THEN spaceEnd(s, i + 1) ELSE i

\* fix(?:es|ed)?|close[sd]?|resolve[sd]?
ClosingKeywords ==
    { <<"f","i","x">>, <<"f","i","x","e","s">>, <<"f","i","x","e","d">>,
      <<"c","l","o","s","e">>, <<"c","l","o","s","e","s">>,
      <<"c","l","o","s","e","d">>,
      <<"r","e","s","o","l","v","e">>, <<"r","e","s","o","l","v","e","s">>,
      <<"r","e","s","o","l","v","e","d">> }

\* Where ":?\s*#(\d+)" matches from position j of s: the position of its "#",
\* or -1.
referenceAfter(s, j) ==
    LET h == spaceEnd(s, IF charAt(s, j) = ":" THEN j + 1 ELSE j)
    IN  IF charAt(s, h) = "#" /\ IsDigit(charAt(s, h + 1)) THEN h ELSE -1

\* Where closingPattern matches s at position i (case-insensitively, at a word
\* boundary): the position of the "#" of the match, or -1.
closingMatchAt(s, i) ==
    LET hits == {k \in ClosingKeywords :
                    /\ MatchAt(toLowerCase(s), k, i)
                    /\ referenceAfter(s, i + Len(k)) # -1}
    IN  IF (i = 0 \/ ~IsWordChar(charAt(s, i - 1))) /\ hits # {}
        THEN referenceAfter(s, i + Len(CHOOSE k \in hits : TRUE))
        ELSE -1

\* Where mentionPattern /#(\d+)/ matches s at position i: i, or -1.
mentionMatchAt(s, i) ==
    IF charAt(s, i) = "#" /\ IsDigit(charAt(s, i + 1)) THEN i ELSE -1

\* The while loops over closingPattern.exec(body): the numbers captured by the
\* successive matches from position i on.
RECURSIVE closingNumbers(_, _)
closingNumbers(s, i) ==
    IF i >= Len(s) THEN << >>
    ELSE LET h == closingMatchAt(s, i)
             e == digitsEnd(s, h + 1)
         IN  IF h = -1 THEN closingNumbers(s, i + 1)
             ELSE <<parseInt(slice(s, h + 1, e))>> \o closingNumbers(s, e)

\* The same over mentionPattern.exec(body).
RECURSIVE mentionNumbers(_, _)
mentionNumbers(s, i) ==
    IF i >= Len(s) THEN << >>
    ELSE LET h == mentionMatchAt(s, i)
             e == digitsEnd(s, h + 1)
         IN  IF h = -1 THEN mentionNumbers(s, i + 1)
             ELSE <<parseInt(slice(s, h + 1, e))>> \o mentionNumbers(s, e)

\* Array.from(new Set(nums)): the first occurrences, in order.
RECURSIVE arrayFromSet(_)
arrayFromSet(nums) ==
    IF nums = << >> THEN << >>
    ELSE LET front == SubSeq(nums, 1, Len(nums) - 1)
             last == nums[Len(nums)]
         IN  IF \E i \in 1..Len(front) : front[i] = last
             THEN arrayFromSet(front)
             ELSE Append(arrayFromSet(front), last)

\* A variant of extractLinkedIssues that looks for closing keywords only.
extractLinkedIssues_ClosingOnly(body) ==
    IF ~Truthy(body) THEN << >> ELSE arrayFromSet(closingNumbers(body[1], 0))

\* extractLinkedIssues(body) for an optional body.
extractLinkedIssues(body) ==
    IF ~Truthy(body) THEN << >>
    ELSE LET closingIssues == arrayFromSet(closingNumbers(body[1], 0))
             mentions == mentionNumbers(body[1], 0)
             mentionedIssues ==
                 arrayFromSet(SelectSeq(mentions,
                     LAMBDA n : ~\E i \in 1..Len(closingIssues) : closingIssues[i] = n))
         IN  closingIssues \o mentionedIssues

\* A variant of the isLettaBot test that takes every author for a Letta bot.
isLettaBot_AnyAuthor(comment) == TRUE

\* The isLettaBot test of searchCommentsForAgent. A comment's user is optional
\* (comment.user?.), a user has an id, a type and a login.
isLettaBot(comment) ==
    /\ IsSome(comment.user)
    /\ \/ comment.user[1].id = LETTA_APP_BOT_ID
       \/ /\ comment.user[1].type = "Bot"
          /\ includes(toLowerCase(comment.user[1].login), <<"l","e","t","t","a">>)
       \/ comment.user[1].login = GITHUB_ACTIONS_LOGIN

\* The ExistingAgentInfo built from a comment and the metadata parsed from it.
agentInfo(comment, metadata) ==
    [agentId |-> metadata["agentId"][1],
     conversationId |-> metadata["conversationId"],
     model |-> metadata["model"],
     commentId |-> comment.id,
     created |-> metadata["created"],
     linkedFromIssue |-> None]

\* The loop of searchCommentsForAgent over response.data: the info of the
\* first comment of a Letta bot whose body parses, or None for null.
RECURSIVE scanComments(_)
scanComments(data) ==
    IF data = << >> THEN None
    ELSE LET comment == Head(data)
             metadata == parseMetadata(comment.body[1])
         IN  IF ~isLettaBot(comment) \/ ~Truthy(comment.body)
             THEN scanComments(Tail(data))
             ELSE IF IsSome(metadata)
             THEN Some(agentInfo(comment, metadata[1]))
             ELSE scanComments(Tail(data))

\* searchCommentsForAgent(octokit, owner, repo, issueNumber), given what
\* octokit.issues.listComments answers per issue number: threw says that the
\* listing rejected, value is the optional info otherwise.
searchCommentsForAgent(listComments, issueNumber) ==
    IF issueNumber \in DOMAIN listComments /\ listComments[issueNumber].ok
    THEN [threw |-> FALSE, value |-> scanComments(listComments[issueNumber].data)]
    ELSE [threw |-> TRUE, value |-> None]

\* A variant of the loop over the linked issues that gives up after the first
\* linked issue.
searchLinkedIssues_FirstOnly(listComments, linkedIssues, calls) ==
    IF linkedIssues = << >> THEN [result |-> None, calls |-> calls]
    ELSE LET linkedIssueNumber == Head(linkedIssues)
             linkedResult == searchCommentsForAgent(listComments, linkedIssueNumber)
             called == Append(calls, linkedIssueNumber)
         IN  IF ~linkedResult.threw /\ IsSome(linkedResult.value)
             THEN [result |->
                      Some([linkedResult.value[1] EXCEPT
                               !.linkedFromIssue = Some(linkedIssueNumber)]),
                   calls |-> called]
             ELSE [result |-> None, calls |-> called]

\* A variant of the loop over the linked issues that a failed listing ends:
\* the search stops at the first linked issue whose listing fails or holds a
\* record.
searchLinkedIssues_StopOnFailure(listComments, linkedIssues, calls) ==
    LET answers == [k \in 1..Len(linkedIssues) |->
                       searchCommentsForAgent(listComments, linkedIssues[k])]
        stops == {k \in 1..Len(linkedIssues) :
                     answers[k].threw \/ IsSome(answers[k].value)}
    IN  IF stops = {}
        THEN [result |-> None, calls |-> calls \o linkedIssues]
        ELSE LET k == CHOOSE x \in stops : \A y \in stops : x <= y
             IN  [result |->
                     IF answers[k].threw THEN None
                     ELSE Some([answers[k].value[1] EXCEPT
                                   !.linkedFromIssue = Some(linkedIssues[k])]),
                  calls |-> calls \o SubSeq(linkedIssues, 1, k)]

\* The loop of findExistingAgent over the linked issues; calls lists the
\* issue numbers whose comments were listed so far.
RECURSIVE searchLinkedIssues(_, _, _)
searchLinkedIssues(listComments, linkedIssues, calls) ==
    IF linkedIssues = << >> THEN [result |-> None, calls |-> calls]
    ELSE LET linkedIssueNumber == Head(linkedIssues)
             linkedResult == searchCommentsForAgent(listComments, linkedIssueNumber)
             called == Append(calls, linkedIssueNumber)
         IN  IF ~linkedResult.threw /\ IsSome(linkedResult.value)
             THEN [result |->
                      Some([linkedResult.value[1] EXCEPT
                               !.linkedFromIssue = Some(linkedIssueNumber)]),
                   calls |-> called]
             ELSE searchLinkedIssues(listComments, Tail(linkedIssues), called)

\* A variant of findExistingAgent that goes on to the linked issues when the
\* listing of the thread's own comments fails.
findExistingAgent_LinkedAfterFailure(listComments, issueNumber, options) ==
    LET own == searchCommentsForAgent(listComments, issueNumber)
    IN  IF ~own.threw /\ IsSome(own.value)
        THEN [result |-> own.value, calls |-> <<issueNumber>>]
        ELSE IF options.isPR /\ Truthy(options.prBody)
        THEN searchLinkedIssues(listComments,
                                extractLinkedIssues(options.prBody),
                                <<issueNumber>>)
        ELSE [result |-> None, calls |-> <<issueNumber>>]

\* findExistingAgent(octokit, owner, repo, issueNumber, options): the value
\* returned and the issue numbers whose comments were listed, in order.
findExistingAgent(listComments, issueNumber, options) ==
    LET own == searchCommentsForAgent(listComments, issueNumber)
    IN  IF own.threw THEN [result |-> None, calls |-> <<issueNumber>>]
        ELSE IF IsSome(own.value)
        THEN [result |-> own.value, calls |-> <<issueNumber>>]
        ELSE IF options.isPR /\ Truthy(options.prBody)
        THEN searchLinkedIssues(listComments,
                                extractLinkedIssues(options.prBody),
                                <<issueNumber>>)
        ELSE [result |-> None, calls |-> <<issueNumber>>]

\* ------------------------------------------------------------------------
\* Tag mode: the outputs of prepare
\* ------------------------------------------------------------------------

\* n.toString() for a natural number.
RECURSIVE toString(_)
toString(n) ==
    IF n < 10 THEN <<Digits[n + 1]>>
    ELSE Append(toString(n \div 10), Digits[(n % 10) + 1])

\* No core.setOutput call made yet.
NoOutputs ==
    [agent_id |-> None, conversation_id |-> None, is_followup |-> None,
     create_new_conversation |-> None, linked_from_issue |-> None]

\* A variant of prepare that pays no attention to the record discovered.
prepare_IgnoreDiscovery(configured, found) ==
    IF Truthy(configured)
    THEN [NoOutputs EXCEPT !.agent_id = Some(configured[1]),
                           !.is_followup = Some("false"),
                           !.create_new_conversation = Some("true")]
    ELSE [NoOutputs EXCEPT !.is_followup = Some("false"),
                           !.create_new_conversation = Some("true")]

\* The outputs tagMode.prepare sets for a configured agent id (optional) and
\* the value found that findExistingAgent returned (optional).
prepare(configured, found) ==
    IF Truthy(configured)
    THEN IF IsSome(found) /\ Truthy(found[1].conversationId)
         THEN [NoOutputs EXCEPT !.agent_id = Some(configured[1]),
                                !.conversation_id = Some(found[1].conversationId[1]),
                                !.is_followup = Some("true"),
                                !.create_new_conversation = Some("false")]
         ELSE [NoOutputs EXCEPT !.agent_id = Some(configured[1]),
                                !.is_followup = Some("false"),
                                !.create_new_conversation = Some("true")]
    ELSE IF IsSome(found)
    THEN IF Truthy(found[1].conversationId)
         THEN [NoOutputs EXCEPT !.agent_id = Some(found[1].agentId),
                                !.conversation_id = Some(found[1].conversationId[1]),
                                !.is_followup = Some("true"),
                                !.create_new_conversation = Some("false"),
                                !.linked_from_issue =
                                    IF IsSome(found[1].linkedFromIssue)
                                       /\ found[1].linkedFromIssue[1] # 0
                                    THEN Some(toString(found[1].linkedFromIssue[1]))
                                    ELSE None]
         ELSE [NoOutputs EXCEPT !.agent_id = Some(found[1].agentId),
                                !.is_followup = Some("true"),
                                !.create_new_conversation = Some("true")]
    ELSE [NoOutputs EXCEPT !.is_followup = Some("false"),
                           !.create_new_conversation = Some("true")]

\* ------------------------------------------------------------------------
\* Tracking comment: the regular expressions of updateCommentBody
\* ------------------------------------------------------------------------

\* Characters outside ASCII, each one character of a string.
ELLIPSIS == "U+2026"

EM_DASH == "U+2014"

BULLET == "U+2022"

ROBOT == "U+1F916"

LAPTOP == "U+1F4BB"

\* The grave accent, which a string of this notation cannot hold.
BACKTICK == "U+0060"

\* The least element of a non-empty set of integers.
SetMin(S) == CHOOSE x \in S : \A y \in S : x <= y

\* The characters "." of a regular expression does not match.
LineTerminators == {"\n", "\r"}

\* The end of the line of s that position i is on: where .* stops.
lineEnd(s, i) ==
    LET ends == {j \in i..(Len(s) - 1) : s[j + 1] \in LineTerminators}
    IN  IF ends = {} THEN Max(i, Len(s)) ELSE SetMin(ends)

\* The end of the longest run of line feeds of s that starts at i: \n*
RECURSIVE newlineEnd(_, _)
newlineEnd(s, i) == IF charAt(s, i) = "\n" THEN newlineEnd(s, i + 1) ELSE i

\* Whether the line of s that starts at position from contains lit.
lineContains(s, from, lit) ==
    LET k == indexOfFrom(s, lit, from)
    IN  k # -1 /\ k + Len(lit) <= lineEnd(s, from)

\* /Letta Code is working[ELLIPSIS\.]{1,3}(?:\s*<img[^>]*>)?/i at position i
\* of s, whose lower-case form is lower: the end of the match, or -1.
workingMatchEnd(s, lower, i) ==
    LET a == i + Len(<<"l","e","t","t","a"," ","c","o","d","e"," ","i","s",
                       " ","w","o","r","k","i","n","g">>)
        dot(j) == charAt(s, j) \in {ELLIPSIS, "."}
        d == IF ~dot(a) THEN -1
             ELSE IF ~dot(a + 1) THEN a + 1
             ELSE IF ~dot(a + 2) THEN a + 2
             ELSE a + 3
        k == spaceEnd(s, d)
        g == indexOfFrom(s, <<">">>, k + 4)
    IN  IF ~MatchAt(lower, <<"l","e","t","t","a"," ","c","o","d","e"," ","i",
                             "s"," ","w","o","r","k","i","n","g">>, i) \/ d = -1
        THEN -1
        ELSE IF MatchAt(lower, <<"<","i","m","g">>, k) /\ g # -1 THEN g + 1
        ELSE d

\* originalBody.replace(workingPattern, ""): the first match is removed.
replaceWorking(s) ==
    With(toLowerCase(s), LAMBDA lower :
        With({i \in 0..(Len(s) - 1) : workingMatchEnd(s, lower, i) # -1},
             LAMBDA hits :
                IF hits = {} THEN s
                ELSE slice(s, 0, SetMin(hits))
                        \o sliceFrom(s, workingMatchEnd(s, lower, SetMin(hits)))))

\* /I'll analyze this and get back to you\.?\s*/gi at position i.
analyzeMatchEnd(s, lower, i) ==
    LET a == i + Len(<<"i","'","l","l"," ","a","n","a","l","y","z","e"," ",
                       "t","h","i","s"," ","a","n","d"," ","g","e","t"," ",
                       "b","a","c","k"," ","t","o"," ","y","o","u">>)
    IN  IF MatchAt(lower, <<"i","'","l","l"," ","a","n","a","l","y","z","e",
                            " ","t","h","i","s"," ","a","n","d"," ","g","e",
                            "t"," ","b","a","c","k"," ","t","o"," ","y","o",
                            "u">>, i)
        THEN spaceEnd(s, IF charAt(s, a) = "." THEN a + 1 ELSE a)
        ELSE -1

\* /\n?\[label\]\([^\)]+\)/g at position i, for the text label of a link.
linkMatchEnd(s, label, i) ==
    LET a == IF charAt(s, i) = "\n" THEN i + 1 ELSE i
        open == <<"[">> \o label \o <<"]", "(">>
        g == indexOfFrom(s, <<")">>, a + Len(open))
    IN  IF MatchAt(s, open, a) /\ g > a + Len(open) THEN g + 1 ELSE -1

\* /\n*---\n*Duration: [0-9]+m? [0-9]+s/g at position i.
durationMatchEnd(s, i) ==
    LET a == newlineEnd(s, i)
        b == newlineEnd(s, a + 3)
        c == digitsEnd(s, b + Len(<<"D","u","r","a","t","i","o","n",":"," ">>))
        d == IF charAt(s, c) = "m" THEN c + 1 ELSE c
        e == digitsEnd(s, d + 1)
    IN  IF /\ MatchAt(s, <<"-","-","-">>, a)
           /\ MatchAt(s, <<"D","u","r","a","t","i","o","n",":"," ">>, b)
           /\ c > b + Len(<<"D","u","r","a","t","i","o","n",":"," ">>)
           /\ charAt(s, d) = " "
           /\ e > d + 1
           /\ charAt(s, e) = "s"
        THEN e + 1
        ELSE -1

\* The text of the identity footer the footer pattern looks for.
AGENT_LABEL == <<ROBOT," ","*","*","A","g","e","n","t",":","*","*">>

\* /\n*---\n+ROBOT \*\*Agent:\*\*.*(?:\n.*View in ADE.*)?(?:\n.*Chat with
\* this agent.*)?/g at position i.
footerMatchEnd(s, i) ==
    LET a == newlineEnd(s, i)
        b == newlineEnd(s, a + 3)
        e1 == lineEnd(s, b + Len(AGENT_LABEL))
        e2 == IF charAt(s, e1) = "\n"
                 /\ lineContains(s, e1 + 1, <<"V","i","e","w"," ","i","n"," ",
                                              "A","D","E">>)
              THEN lineEnd(s, e1 + 1)
              ELSE e1
        e3 == IF charAt(s, e2) = "\n"
                 /\ lineContains(s, e2 + 1, <<"C","h","a","t"," ","w","i","t",
                                              "h"," ","t","h","i","s"," ","a",
                                              "g","e","n","t">>)
              THEN lineEnd(s, e2 + 1)
              ELSE e2
    IN  IF /\ MatchAt(s, <<"-","-","-">>, a)
           /\ b > a + 3
           /\ MatchAt(s, AGENT_LABEL, b)
        THEN e3
        ELSE -1

\* The end of the match of the named pattern at position i of s, or -1.
matchEnd(pattern, s, lower, i) ==
    CASE pattern = "analyze" -> analyzeMatchEnd(s, lower, i)
      [] pattern = "viewJobRun" -> linkMatchEnd(s, <<"V","i","e","w"," ","j",
                                                     "o","b"," ","r","u","n">>, i)
      [] pattern = "viewBranch" -> linkMatchEnd(s, <<"V","i","e","w"," ","b",
                                                     "r","a","n","c","h">>, i)
      [] pattern = "duration" -> durationMatchEnd(s, i)
      [] pattern = "footer" -> footerMatchEnd(s, i)

\* s.replace(pattern, "") for a pattern with the g flag: every match, found
\* from left to right from position from on, is removed.
RECURSIVE removeAll(_, _, _, _)
removeAll(pattern, s, lower, from) ==
    With({i \in from..(Len(s) - 1) : matchEnd(pattern, s, lower, i) # -1},
         LAMBDA hits :
            IF hits = {} THEN sliceFrom(s, from)
            ELSE slice(s, from, SetMin(hits))
                    \o removeAll(pattern, s, lower,
                                 matchEnd(pattern, s, lower, SetMin(hits))))

\* [a-zA-Z0-9-]
IsUsernameChar(c) == c = "-" \/ (IsWordChar(c) /\ c # "_")

RECURSIVE usernameEnd(_, _)
usernameEnd(s, i) ==
    IF IsUsernameChar(charAt(s, i)) THEN usernameEnd(s, i + 1) ELSE i

\* bodyContent.match(/@([a-zA-Z0-9-]+)/): the capture, optional.
usernameMatch(s) ==
    LET hits == {i \in 0..(Len(s) - 1) :
                    s[i + 1] = "@" /\ IsUsernameChar(charAt(s, i + 1))}
    IN  IF hits = {} THEN None
        ELSE Some(slice(s, SetMin(hits) + 1, usernameEnd(s, SetMin(hits) + 1)))

\* ------------------------------------------------------------------------
\* Tracking comment: the bodies written
\* ------------------------------------------------------------------------

ADE_BASE_URL == <<"h","t","t","p","s",":","/","/","a","p","p",".","l","e","t",
                  "t","a",".","c","o","m","/","a","g","e","n","t","s">>

WORKING_LINE ==
    <<"L","e","t","t","a"," ","C","o","d","e"," ","i","s"," ","w","o","r","k",
      "i","n","g",ELLIPSIS," ","<","i","m","g"," ","s","r","c","=","\"","h",
      "t","t","p","s",":","/","/","g","i","t","h","u","b",".","c","o","m","/",
      "u","s","e","r","-","a","t","t","a","c","h","m","e","n","t","s","/","a",
      "s","s","e","t","s","/","0","5","b","e","1","9","9","b","-","c","8","3",
      "4","-","4","0","7","f","-","8","3","7","1","-","6","f","4","b","9","1",
      "4","3","5","b","7","1","\""," ","w","i","d","t","h","=","\"","1","4",
      "p","x","\""," ","h","e","i","g","h","t","=","\"","1","4","p","x","\"",
      " ","s","t","y","l","e","=","\"","v","e","r","t","i","c","a","l","-",
      "a","l","i","g","n",":"," ","m","i","d","d","l","e",";"," ","m","a","r",
      "g","i","n","-","l","e","f","t",":"," ","4","p","x",";","\""," ","/",">">>

CHAT_PREFIX ==
    <<LAPTOP," ","C","h","a","t"," ","w","i","t","h"," ","t","h","i","s"," ",
      "a","g","e","n","t"," ","i","n"," ","y","o","u","r"," ","t","e","r","m",
      "i","n","a","l"," ","u","s","i","n","g"," ","[","L","e","t","t","a"," ",
      "C","o","d","e","]","(","h","t","t","p","s",":","/","/","g","i","t","h",
      "u","b",".","c","o","m","/","l","e","t","t","a","-","a","i","/","l","e",
      "t","t","a","-","c","o","d","e",")",":"," ",BACKTICK>>

\* `letta --conv ${conversationId}` or `letta --agent ${agentId}`
cliCommand(agentId, conversationId) ==
    IF Truthy(conversationId)
    THEN <<"l","e","t","t","a"," ","-","-","c","o","n","v"," ">> \o conversationId[1]
    ELSE <<"l","e","t","t","a"," ","-","-","a","g","e","n","t"," ">> \o agentId

\* The body updateCommentWithAgentInfo writes for an agent shown under the
\* name agentDisplayName, with the link jobLink to the job run.
runningBody(agentId, agentDisplayName, conversationId, jobLink) ==
    LET adeBaseLink == ADE_BASE_URL \o <<"/">> \o agentId
        adeLink == IF Truthy(conversationId)
                   THEN adeBaseLink \o <<"?","c","o","n","v","e","r","s","a",
                                         "t","i","o","n","=">> \o conversationId[1]
                   ELSE adeBaseLink
    IN  WORKING_LINE \o <<"\n","\n","-","-","-","\n">>
            \o AGENT_LABEL \o <<" ","[">> \o agentDisplayName \o <<"]","(">> \o adeLink
            \o <<")"," ",BULLET," ","[","V","i","e","w"," ","j","o","b"," ",
                 "r","u","n","]","(">> \o jobLink \o <<")","\n">>
            \o CHAT_PREFIX \o cliCommand(agentId, conversationId) \o <<BACKTICK>>

\* The header of updateCommentBody, without a duration.
header(input, bodyContent) ==
    LET match == usernameMatch(bodyContent)
        username == IF Truthy(input.triggerUsername) THEN input.triggerUsername[1]
                    ELSE IF IsSome(match) THEN match[1]
                    ELSE <<"u","s","e","r">>
    IN  IF input.actionFailed
        THEN <<"*","*","L","e","t","t","a"," ","C","o","d","e"," ","e","n",
               "c","o","u","n","t","e","r","e","d"," ","a","n"," ","e","r",
               "r","o","r">> \o <<"*","*">>
        ELSE <<"*","*","L","e","t","t","a"," ","C","o","d","e"," ","f","i",
               "n","i","s","h","e","d"," ","@">> \o username \o <<"'","s"," ","t",
                                                           "a","s","k">> \o <<
                                                                           "*",
                                                                           "*">>

\* The visible footer of updateCommentBody.
footer(input) ==
    LET agentId == input.agentId[1]
        adeUrl == ADE_BASE_URL \o <<"/">> \o agentId
    IN  <<"\n","\n","-","-","-","\n">> \o AGENT_LABEL \o <<" ","[",BACKTICK>> \o agentId \o <<BACKTICK,"]","(">>
            \o adeUrl \o <<")">>
            \o (IF Truthy(input.conversationId)
                THEN <<" ",BULLET," ","*","*","C","o","n","v","e","r","s","a",
                       "t","i","o","n",":","*","*"," ",BACKTICK>> \o input.conversationId[1]
                        \o <<BACKTICK>>
                ELSE << >>)
            \o (IF Truthy(input.model)
                THEN <<" ",BULLET," ","*","*","M","o","d","e","l",":","*","*",
                       " ">> \o input.model[1]
                ELSE << >>)
            \o <<"\n","[","V","i","e","w"," ","i","n"," ","A","D","E","]","(">> \o adeUrl \o <<")"," ",BULLET," ","[",
                                                    "V","i","e","w"," ","j",
                                                    "o","b"," ","r","u","n",
                                                    "]","(">>
            \o input.jobUrl \o <<")">>
            \o <<"\n">> \o CHAT_PREFIX
            \o cliCommand(agentId, input.conversationId) \o <<BACKTICK>>

\* newBody with its first metadata block cut out, as updateCommentBody does
\* before it appends the footer.
stripMetadata(newBody) ==
    LET metadataStart == indexOf(newBody, METADATA_START)
        metadataEnd == indexOfFrom(newBody, METADATA_END, metadataStart) + 3
    IN  IF hasMetadata(newBody)
        THEN slice(newBody, 0, metadataStart) \o sliceFrom(newBody, metadataEnd)
        ELSE newBody

\* The default sentence for a comment the agent never updated.
defaultContent(actionFailed) ==
    IF actionFailed
    THEN <<"T","h","e"," ","a","g","e","n","t"," ","e","n","c","o","u","n","t",
           "e","r","e","d"," ","a","n"," ","i","s","s","u","e"," ","b","e","f",
           "o","r","e"," ","u","p","d","a","t","i","n","g"," ","t","h","e"," ",
           "c","o","m","m","e","n","t",".">>
    ELSE <<"T","a","s","k"," ","c","o","m","p","l","e","t","e","d",".">>

\* updateCommentBody: bodyContent after the removal of the two placeholders.
analyzeRemoved(working) ==
    With(toLowerCase(working),
         LAMBDA lower : trim(removeAll("analyze", working, lower, 0)))

extractContent(originalBody) == With(trim(replaceWorking(originalBody)), analyzeRemoved)

\* updateCommentBody: bodyContent after "Clean up the body content", with the
\* default sentence in the place of an empty one.
durationRemoved(noBranch) == removeAll("duration", noBranch, noBranch, 0)

branchRemoved(noJobRun) ==
    With(removeAll("viewBranch", noJobRun, noJobRun, 0), durationRemoved)

cleanContent(actionFailed, bodyContent) ==
    With(With(removeAll("viewJobRun", bodyContent, bodyContent, 0), branchRemoved),
         LAMBDA cleaned : IF trim(cleaned) = << >>
                          THEN defaultContent(actionFailed)
                          ELSE cleaned)

\* ------------------------------------------------------------------------
\* The link to create a pull request
\* ------------------------------------------------------------------------

ARROW == "U+2794"

PERCENT_20 == <<"%","2","0">>

PERCENT_3A == <<"%","3","A">>

\* s.replace(/ /g, "%20")
RECURSIVE encodeSpaces(_)
encodeSpaces(s) ==
    IF s = << >> THEN << >>
    ELSE (IF Head(s) = " " THEN PERCENT_20 ELSE <<Head(s)>>) \o encodeSpaces(Tail(s))

\* The characters of a URL scheme after its first letter.
IsSchemeChar(c) == (IsWordChar(c) /\ c # "_") \/ c \in {"+", "-", "."}

\* The characters at which the host of a URL ends.
HostEnds == {"/", "?", "#"}

\* The end of the run of "/" of s that starts at position i.
RECURSIVE slashesEnd(_, _)
slashesEnd(s, i) == IF charAt(s, i) = "/" THEN slashesEnd(s, i + 1) ELSE i

\* The host of the URL u whose scheme ends before position k.
hostOf(u, k) ==
    LET from == slashesEnd(u, k + 1)
        ends == {j \in from..(Len(u) - 1) : u[j + 1] \in HostEnds}
    IN  slice(u, from, IF ends = {} THEN Len(u) ELSE SetMin(ends))

\* Whether new URL(url) returns rather than throws, for a url without user
\* information and port: the url, trimmed, starts with a scheme, and under
\* http and https it has a host without a space and without a percent sign.
urlParses(url) ==
    LET u == trim(url)
        k == indexOf(u, <<":">>)
    IN  /\ k > 0
        /\ IsWordChar(u[1]) /\ ~IsDigit(u[1]) /\ u[1] # "_"
        /\ \A i \in 1..k : IsSchemeChar(u[i])
        /\ toLowerCase(slice(u, 0, k)) \in {<<"h","t","t","p">>, <<"h","t","t","p","s">>}
            => LET host == hostOf(u, k)
               IN  /\ host # << >>
                   /\ \A i \in 1..Len(host) : host[i] \notin {" ", "%"}

\* The characters a percent sign and two digits stand for, of the ones used
\* here.
PercentCodes ==
    {[code |-> <<"2","0">>, char |-> " "],
     [code |-> <<"3","A">>, char |-> ":"],
     [code |-> <<"2","F">>, char |-> "/"],
     [code |-> <<"3","D">>, char |-> "="],
     [code |-> <<"2","6">>, char |-> "&"],
     [code |-> <<"2","B">>, char |-> "+"],
     [code |-> <<"2","5">>, char |-> "%"]}

\* decodeURIComponent(s): the decoded string, or None where it throws.
RECURSIVE decodeURIComponent(_)
decodeURIComponent(s) ==
    IF s = << >> THEN Some(<< >>)
    ELSE IF Head(s) # "%"
    THEN With(decodeURIComponent(Tail(s)), LAMBDA rest :
            IF IsSome(rest) THEN Some(<<Head(s)>> \o rest[1]) ELSE None)
    ELSE With({p \in PercentCodes : p.code = slice(s, 1, 3)}, LAMBDA hits :
            IF hits = {} THEN None
            ELSE With(decodeURIComponent(sliceFrom(s, 3)), LAMBDA rest :
                    IF IsSome(rest)
                    THEN Some(<<(CHOOSE p \in hits : TRUE).char>> \o rest[1])
                    ELSE None))

\* The application/x-www-form-urlencoded form of s, as
\* URLSearchParams.toString() writes a name or a value.
RECURSIVE formEncode(_)
formEncode(s) ==
    IF s = << >> THEN << >>
    ELSE (IF Head(s) = " " THEN <<"+">>
          ELSE IF IsWordChar(Head(s)) \/ Head(s) \in {"*", "-", "."} THEN <<Head(s)>>
          ELSE IF \E p \in PercentCodes : p.char = Head(s)
          THEN <<"%">> \o (CHOOSE p \in PercentCodes : p.char = Head(s)).code
          ELSE <<Head(s)>>)
         \o formEncode(Tail(s))

\* params.set(key, value) on the list params of name-value pairs.
paramsSet(params, key, value) ==
    LET at == {i \in DOMAIN params : params[i].key = key}
    IN  IF at = {} THEN Append(params, [key |-> key, value |-> value])
        ELSE SubSeq(params, 1, SetMin(at) - 1)
                \o <<[key |-> key, value |-> value]>>
                \o SelectSeq(SubSeq(params, SetMin(at) + 1, Len(params)),
                             LAMBDA p : p.key # key)

\* The loop of ensureProperlyEncodedUrl over the pairs of the query string:
\* the parameters, or None where decodeURIComponent throws.
RECURSIVE reencodePairs(_, _)
reencodePairs(pairs, params) ==
    IF pairs = << >> THEN Some(params)
    ELSE LET pieces == split(Head(pairs), "=")
             key == pieces[1]
             value == IF Len(pieces) > 1 THEN pieces[2] ELSE << >>
             decoded == decodeURIComponent(value)
         IN  IF key = << >> THEN reencodePairs(Tail(pairs), params)
             ELSE IF ~IsSome(decoded) THEN None
             ELSE reencodePairs(Tail(pairs), paramsSet(params, key, decoded[1]))

\* params.toString()
RECURSIVE paramsToString(_)
paramsToString(params) ==
    IF params = << >> THEN << >>
    ELSE formEncode(params[1].key) \o <<"=">> \o formEncode(params[1].value)
            \o (IF Len(params) > 1 THEN <<"&">> ELSE << >>)
            \o paramsToString(Tail(params))

\* queryString.replace(/([^%]|^):(?!%2F%2F)/g, "$1%3A") from position p on.
RECURSIVE encodeColons(_, _)
encodeColons(q, p) ==
    IF p >= Len(q) THEN << >>
    ELSE IF /\ charAt(q, p) # "%"
            /\ charAt(q, p + 1) = ":"
            /\ ~MatchAt(q, <<"%","2","F","%","2","F">>, p + 2)
    THEN <<charAt(q, p)>> \o PERCENT_3A \o encodeColons(q, p + 2)
    ELSE IF /\ p = 0
            /\ charAt(q, 0) = ":"
            /\ ~MatchAt(q, <<"%","2","F","%","2","F">>, 1)
    THEN PERCENT_3A \o encodeColons(q, 1)
    ELSE <<charAt(q, p)>> \o encodeColons(q, p + 1)

\* The catch branch of ensureProperlyEncodedUrl: "try basic fixes".
basicFixes(url) ==
    LET urlParts == split(encodeSpaces(url), "?")
        fixedUrl == IF Len(urlParts) > 1 /\ urlParts[2] # << >>
                    THEN urlParts[1] \o <<"?">> \o encodeColons(urlParts[2], 0)
                    ELSE encodeSpaces(url)
    IN  IF urlParses(fixedUrl) THEN Some(fixedUrl) ELSE None

\* ensureProperlyEncodedUrl(url): the URL, or None for null.
ensureProperlyEncodedUrl(url) ==
    IF ~urlParses(url) THEN basicFixes(url)
    ELSE IF ~includes(url, <<" ">>) THEN Some(url)
    ELSE LET parts == split(url, "?")
         IN  IF Len(parts) > 1 /\ parts[2] # << >>
             THEN With(reencodePairs(split(parts[2], "&"), << >>), LAMBDA params :
                    IF IsSome(params)
                    THEN Some(parts[1] \o <<"?">> \o paramsToString(params[1]))
                    ELSE basicFixes(url))
             ELSE Some(encodeSpaces(url))

CREATE_OPEN == <<"[","C","r","e","a","t","e"," ">>

PR_CLOSE == <<" ","P","R","]","(">>

\* /\[Create .* PR\]\((.*)\)$/m at position i of s: the position of the
\* " PR](" that ends the label of the match, or -1.
prLinkLabelEnd(s, i) ==
    LET e == lineEnd(s, i + Len(CREATE_OPEN))
        ks == {k \in (i + Len(CREATE_OPEN))..(e - 1 - Len(PR_CLOSE)) :
                MatchAt(s, PR_CLOSE, k)}
    IN  IF /\ MatchAt(s, CREATE_OPEN, i)
           /\ charAt(s, e - 1) = ")"
           /\ ks # {}
        THEN CHOOSE k \in ks : \A j \in ks : j <= k
        ELSE -1

\* bodyContent.match(prLinkPattern): the text and the capture of the leftmost
\* match, optional.
prLinkMatch(s) ==
    With({i \in 0..(Len(s) - 1) : prLinkLabelEnd(s, i) # -1}, LAMBDA hits :
        IF hits = {} THEN None
        ELSE LET i == SetMin(hits)
                 e == lineEnd(s, i + Len(CREATE_OPEN))
             IN  Some([text |-> slice(s, i, e),
                       url |-> slice(s, prLinkLabelEnd(s, i) + Len(PR_CLOSE), e - 1)]))

\* s.replace(text, ""), for a text without "$": its first occurrence goes.
removeFirst(s, text) ==
    LET i == indexOf(s, text)
    IN  IF i = -1 THEN s ELSE slice(s, 0, i) \o sliceFrom(s, i + Len(text))

\* updateCommentBody: "Check if there's a PR link in the content", the
\* values of prLinkFromContent and bodyContent after it.
prLinkExtracted(bodyContent) ==
    With(prLinkMatch(bodyContent), LAMBDA match :
        IF IsSome(match) /\ match[1].url # << >>
        THEN With(ensureProperlyEncodedUrl(match[1].url), LAMBDA encodedUrl :
                IF IsSome(encodedUrl) /\ encodedUrl[1] # << >>
                THEN [prLinkFromContent |-> encodedUrl[1],
                      bodyContent |-> trim(removeFirst(bodyContent, match[1].text))]
                ELSE [prLinkFromContent |-> << >>, bodyContent |-> bodyContent])
        ELSE [prLinkFromContent |-> << >>, bodyContent |-> bodyContent])

\* updateCommentBody: the links of the header line, for an input without
\* branchName, branchLink and prLink.
links(input, prLinkFromContent) ==
    <<" ",EM_DASH,EM_DASH," ","[","V","i","e","w"," ","j","o","b","]","(">>
        \o input.jobUrl \o <<")">>
        \o (IF prLinkFromContent # << >>
            THEN <<" ",BULLET," ","[","C","r","e","a","t","e"," ","P","R"," ",ARROW,"]","(">>
                    \o prLinkFromContent \o <<")">>
            ELSE << >>)

\* updateCommentBody: newBody before "Add agent footer and metadata".
bodyWithContent(input, prLinkFromContent, bodyContent) ==
    header(input, bodyContent)
        \o links(input, prLinkFromContent)
        \o <<"\n","\n","-","-","-","\n">>
        \o cleanContent(input.actionFailed, bodyContent)

\* updateCommentBody: "Add agent footer and metadata" and the final trim.
bodyWithFooter(input, t, newBody) ==
    IF Truthy(input.agentId)
    THEN With(stripMetadata(newBody), LAMBDA stripped :
            trim(trim(removeAll("footer", stripped, stripped, 0))
                    \o footer(input) \o <<"\n","\n">>
                    \o formatMetadata([agentId |-> input.agentId[1],
                                       conversationId |-> input.conversationId,
                                       model |-> input.model,
                                       created |-> None], t)))
    ELSE trim(newBody)

\* updateCommentBody(input), called when the wall clock reads t, for an input
\* without executionDetails, branchLink, prLink, branchName and errorDetails.
updateCommentBody(input, t) ==
    With(prLinkExtracted(extractContent(input.currentBody)), LAMBDA found :
        With(bodyWithContent(input, found.prLinkFromContent, found.bodyContent),
             LAMBDA newBody : bodyWithFooter(input, t, newBody)))

\* ------------------------------------------------------------------------
\* Trigger parser
\* ------------------------------------------------------------------------

\* Flags we control - these get stripped with a warning
BLOCKED_FLAGS ==
    { <<"-","p">>,
      <<"-","-","p","r","o","m","p","t">>,
      <<"-","-","o","u","t","p","u","t","-","f","o","r","m","a","t">>,
      <<"-","-","y","o","l","o">>,
      <<"-","y">> }

\* Flags that take a value (need to skip the next token too)
FLAGS_WITH_VALUES ==
    { <<"-","p">>,
      <<"-","-","p","r","o","m","p","t">>,
      <<"-","m">>,
      <<"-","-","m","o","d","e","l">>,
      <<"-","-","a","g","e","n","t">>,
      <<"-","-","o","u","t","p","u","t","-","f","o","r","m","a","t">> }

\* parseArgs(input): the loop over the characters of input, then the push of
\* a last token. inQuote is the open quote character, or "" for null.
RECURSIVE argScan(_, _, _, _)
argScan(input, current, inQuote, args) ==
    IF input = << >>
    THEN (IF current # << >> THEN Append(args, current) ELSE args)
    ELSE LET char == Head(input)
             rest == Tail(input)
         IN  IF inQuote # ""
             THEN IF char = inQuote
                  THEN argScan(rest, current, "", args)
                  ELSE argScan(rest, Append(current, char), inQuote, args)
             ELSE IF char \in QuoteChars
             THEN argScan(rest, current, char, args)
             ELSE IF char \in {" ", "\t"}
             THEN IF current # << >>
                  THEN argScan(rest, << >>, "", Append(args, current))
                  ELSE argScan(rest, current, "", args)
             ELSE argScan(rest, Append(current, char), "", args)

parseArgs(input) == argScan(input, << >>, "", << >>)

\* afterTrigger.match(/^\s*\[([^\]]*)\]?\s*([\s\S]*)/): the two groups, or
\* None when there is no match.
bracketMatch(afterTrigger) ==
    LET open == spaceEnd(afterTrigger, 0)
        close == indexOfFrom(afterTrigger, <<"]">>, open + 1)
        contentEnd == IF close = -1 THEN Len(afterTrigger) ELSE close
        restStart == spaceEnd(afterTrigger,
                              IF close = -1 THEN contentEnd ELSE close + 1)
    IN  IF charAt(afterTrigger, open) # "["
        THEN None
        ELSE Some([bracketContent |-> slice(afterTrigger, open + 1, contentEnd),
                   restOfComment |-> sliceFrom(afterTrigger, restStart)])

\* A variant of the loop that removes the blocked flags without recording
\* them.
RECURSIVE filterArgs_NoRecord(_, _, _, _)
filterArgs_NoRecord(args, i, filteredArgs, blockedFound) ==
    IF ~(i < Len(args))
    THEN [filteredArgs |-> filteredArgs, blockedFound |-> blockedFound]
    ELSE IF args[i + 1] \in BLOCKED_FLAGS
    THEN filterArgs_NoRecord(args,
             IF args[i + 1] \in FLAGS_WITH_VALUES /\ i + 1 < Len(args)
             THEN i + 2 ELSE i + 1,
             filteredArgs, blockedFound)
    ELSE filterArgs_NoRecord(args, i + 1, Append(filteredArgs, args[i + 1]),
                             blockedFound)

\* A variant of the loop that never skips the value of a blocked flag.
RECURSIVE filterArgs_NoValueSkip(_, _, _, _)
filterArgs_NoValueSkip(args, i, filteredArgs, blockedFound) ==
    IF ~(i < Len(args))
    THEN [filteredArgs |-> filteredArgs, blockedFound |-> blockedFound]
    ELSE IF args[i + 1] \in BLOCKED_FLAGS
    THEN filterArgs_NoValueSkip(args, i + 1, filteredArgs,
                                Append(blockedFound, args[i + 1]))
    ELSE filterArgs_NoValueSkip(args, i + 1,
                                Append(filteredArgs, args[i + 1]), blockedFound)

\* The while loop of parseTrigger over args from index i (0-based) on.
RECURSIVE filterArgs(_, _, _, _)
filterArgs(args, i, filteredArgs, blockedFound) ==
    IF ~(i < Len(args))
    THEN [filteredArgs |-> filteredArgs, blockedFound |-> blockedFound]
    ELSE LET arg == args[i + 1]
         IN  IF arg = << >>
             THEN filterArgs(args, i + 1, filteredArgs, blockedFound)
             ELSE IF arg \in BLOCKED_FLAGS
             THEN IF arg \in FLAGS_WITH_VALUES /\ i + 1 < Len(args)
                  THEN filterArgs(args, i + 2, filteredArgs,
                                  Append(blockedFound, arg))
                  ELSE filterArgs(args, i + 1, filteredArgs,
                                  Append(blockedFound, arg))
             ELSE filterArgs(args, i + 1, Append(filteredArgs, arg),
                             blockedFound)

\* parseTrigger(triggerPhrase, commentBody)
parseTrigger(triggerPhrase, commentBody) ==
    LET result == [lettaArgs |-> << >>, prompt |-> << >>, warnings |-> << >>,
                   parseError |-> None]
        triggerIndex == indexOf(toLowerCase(commentBody),
                                toLowerCase(triggerPhrase))
        afterTrigger == sliceFrom(commentBody, triggerIndex + Len(triggerPhrase))
        match == bracketMatch(afterTrigger)
        bracketContent == match[1].bracketContent
        restOfComment == match[1].restOfComment
        filtered == filterArgs(parseArgs(bracketContent), 0, << >>, << >>)
    IN  IF triggerIndex = -1
        THEN [result EXCEPT !.prompt = commentBody]
        ELSE IF match = None
        THEN [result EXCEPT !.prompt = trim(afterTrigger)]
        ELSE IF ~includes(afterTrigger, <<"]">>) /\ bracketContent # << >>
        THEN [result EXCEPT
                 !.parseError = Some(<<"U","n","c","l","o","s","e","d"," ",
                                       "b","r","a","c","k","e","t"," ","i",
                                       "n"," ","t","r","i","g","g","e","r",
                                       " ","s","y","n","t","a","x">>),
                 !.prompt = trim(afterTrigger)]
        ELSE IF trim(bracketContent) = << >>
        THEN [result EXCEPT !.prompt = trim(restOfComment)]
        ELSE [result EXCEPT
                 !.lettaArgs = filtered.filteredArgs,
                 !.prompt = trim(restOfComment),
                 !.warnings =
                     IF Len(filtered.blockedFound) > 0
                     THEN <<<<"I","g","n","o","r","e","d"," ","f","l","a","g",
                              "s",":"," ">>
                              \o join(filtered.blockedFound, <<",", " ">>)>>
                     ELSE << >>]

\* envLettaArgs.split(/\s+/).filter(a => a): the pieces of s between runs of
\* white space, the empty ones left out.
RECURSIVE splitWhiteSpace(_, _, _)
splitWhiteSpace(s, current, out) ==
    IF s = << >>
    THEN IF current = << >> THEN out ELSE Append(out, current)
    ELSE IF Head(s) \in WhiteSpace
    THEN splitWhiteSpace(Tail(s), << >>,
                         IF current = << >> THEN out ELSE Append(out, current))
    ELSE splitWhiteSpace(Tail(s), Append(current, Head(s)), out)

\* tagMode.prepare: the letta_args output, the trigger's tokens followed by
\* those of LETTA_ARGS, joined with single spaces.
lettaArgsJoined(parsedTrigger, envLettaArgs) ==
    join(parsedTrigger.lettaArgs \o splitWhiteSpace(envLettaArgs, << >>, << >>),
         <<" ">>)

\* ------------------------------------------------------------------------
\* State
\* ------------------------------------------------------------------------


VARIABLES
    cleanupInput, \* checkAndCommitOrDeleteBranch: lettaBranch and useCommitSigning (optional)
    remoteBranch, \* the branch of the agent on GitHub: whether it exists and its commits ahead of the base branch
    treeDirty, \* whether the working tree holds uncommitted changes
    cleanupAt, \* checkAndCommitOrDeleteBranch: where it is
    shouldDeleteBranch, \* checkAndCommitOrDeleteBranch: its local shouldDeleteBranch
    branchLink, \* checkAndCommitOrDeleteBranch: its local branchLink
    cleanupTrace, \* what the call met: the branch and the tree at its start, how the comparison and the status check ended, whether deleteRef was called
    cleanupResult, \* checkAndCommitOrDeleteBranch: what it returned (optional)
    showFullOutput, \* runLetta: whether full output is shown
    relayInput, \* the lines the agent process prints, each in a data event of its own
    relayAt, \* the number of lines of relayInput handled
    relayLog, \* process.stdout of the action: the strings written, in order
    mainPath, \* runLetta: where its main path is
    lettaProcess, \* runLetta: the agent process, whether it exited (and with which code) and whether its stdout is open
    subprocessErrors, \* runLetta: the subprocesses whose error event was emitted
    pipeStream, \* runLetta: the write stream of the named pipe, open or destroyed
    sideCalls, \* runLetta: the calls started without being awaited, each with where it is
    identity, \* runLetta: agentId, conversationId and modelHandle captured from stdout
    awaitedExit, \* runLetta: what the exit promise resolved with (optional)
    coreOutputs, \* runLetta: the outputs set with core.setOutput
    seen, \* runLetta: the stdout lines handled so far, by kind
    lettaArgsOutput, \* tagMode.prepare: the letta_args output (optional)
    conversations, \* Letta API: the conversations, oldest first, each with its agent
    runs, \* the runs of the action under way on different threads
    stream, \* stdout of the agent process: the lines it writes in all
    pending, \* stdout of the agent process: the text not yet delivered in a data event
    params, \* updateLettaComment: its params (optional)
    apiCalls, \* updateLettaComment: the calls made to the GitHub API, each with its answer
    updatePc, \* updateLettaComment: where the call is
    updateResult, \* updateLettaComment: what it returned or threw (optional)
    ending, \* runLetta: the event that ended the wait for the agent process (optional)
    exitStatus, \* runLetta: the status it called process.exit with (optional)
    renderParts, \* updateCommentBody: how the current body is put together (optional)
    renderInput, \* updateCommentBody: the input given to it (optional)
    rendered, \* updateCommentBody: the body it returned (optional)
    bodyParts, \* extractLinkedIssues: the references the body is put together from
    prBody, \* extractLinkedIssues: the body given to it (optional)
    linkedIssues, \* extractLinkedIssues: what it returned (optional)
    triggerParts, \* trigger parser: how the text of the comment is put together
    triggerText, \* trigger parser: the text of the triggering comment
    trigger, \* trigger parser: what parseTrigger returned (optional)
    now,        \* the wall clock read by new Date()
    body,       \* codec: the comment body updateMetadataInBody works on
    prevBody,   \* codec: that body before the latest update
    baseBody,   \* codec: that body before the first update
    lastMeta,   \* codec: the metadata object of the latest update (optional)
    prevMeta,   \* codec: the metadata object of the update before it (optional)
    nUpserts,   \* codec: the number of updates made to the body
    rtIn,       \* codec: the metadata object last formatted (optional)
    rtText,     \* codec: formatMetadata's result for it
    rtOut,      \* codec: parseMetadata's result for that text
    runOptions, \* builder: the LettaOptions last given to prepareRunConfig (optional)
    lettaArgs,  \* builder: the lettaArgs prepareRunConfig returned for them
    ghComments, \* GitHub: per issue number, its comments in creation order
    context,    \* the thread of the triggering event: entityNumber, isPR, prBody
    listResponses, \* resolver: what listComments answered per issue number
    listCalls,  \* resolver: the issue numbers whose comments were listed
    existingAgent, \* resolver: what findExistingAgent returned (optional)
    resolved,   \* resolver: whether findExistingAgent has returned
    configuredAgentId, \* context.inputs.agentId (optional)
    outputs,    \* the outputs set by tagMode.prepare (optional: none before it)
    pc,         \* the step the invocation of the action is at
    invocation, \* which invocation on the thread this is: none, first, next
    commentId,  \* the id of the tracking comment of the invocation (0: none)
    captured,   \* runLetta: agentId, conversationId, modelHandle (optional)
    nEvents,    \* runLetta: the number of events read from the agent's stdout
    updates,    \* the calls of updateCommentWithAgentInfo still under way
    exitCode,   \* runLetta: the exit code the close event delivered (optional)
    runOutputs, \* the outputs set by runLetta (optional: none before it)
    previous    \* a summary of the invocation before this one (optional)

codecVars ==
    <<body, prevBody, baseBody, lastMeta, prevMeta, nUpserts, rtIn, rtText, rtOut>>

builderVars == <<runOptions, lettaArgs>>

githubVars == <<ghComments, context>>

resolverVars == <<listResponses, listCalls, existingAgent, resolved>>

prepareVars == <<configuredAgentId, outputs>>

runVars ==
    <<pc, invocation, commentId, captured, nEvents, updates, exitCode,
      runOutputs, previous>>

triggerVars == <<triggerParts, triggerText, trigger>>

linkedVars == <<bodyParts, prBody, linkedIssues>>

renderVars == <<renderParts, renderInput, rendered>>

exitVars == <<ending, exitStatus>>

updateVars == <<params, apiCalls, updatePc, updateResult>>

streamVars == <<stream, pending>>

servedVars == <<conversations, runs>>

outputVars == <<lettaArgsOutput>>

supervisorVars == <<mainPath, lettaProcess, subprocessErrors, pipeStream, sideCalls, identity, awaitedExit, coreOutputs, seen>>

relayVars == <<showFullOutput, relayInput, relayAt, relayLog>>

cleanupVars == <<cleanupInput, remoteBranch, treeDirty, cleanupAt, shouldDeleteBranch, branchLink, cleanupTrace, cleanupResult>>

vars ==
    <<now, body, prevBody, baseBody, lastMeta, prevMeta, nUpserts, rtIn, rtText,
      rtOut, runOptions, lettaArgs, ghComments, context, listResponses,
      listCalls, existingAgent, resolved, configuredAgentId, outputs, pc,
      invocation, commentId, captured, nEvents, updates, exitCode, runOutputs,
      previous,
      triggerParts, triggerText, trigger,
      bodyParts, prBody, linkedIssues,
      renderParts, renderInput, rendered,
      ending, exitStatus,
      params, apiCalls, updatePc, updateResult,
      stream, pending,
      conversations, runs,
      lettaArgsOutput,
      mainPath, lettaProcess, subprocessErrors, pipeStream, sideCalls, identity, awaitedExit, coreOutputs, seen,
      showFullOutput, relayInput, relayAt, relayLog,
      cleanupInput, remoteBranch, treeDirty, cleanupAt, shouldDeleteBranch, branchLink, cleanupTrace, cleanupResult>>

\* ------------------------------------------------------------------------
\* Inputs of the codec
\* ------------------------------------------------------------------------

AgentIds == {<<"a","g","-","1">>, <<"a","g","-","2">>}

ConversationIds == {<<"c","v","-","1">>}

Models == {<<"o","p","u","s">>, <<"h","a","i","k","u">>}

CreatedStamps ==
    {<<"2","0","2","4","-","0","1","-","1","5","T","1","0",":","3","0",":","0","0","Z">>}

Optional(S) == {None} \cup {Some(v) : v \in S}

\* The LettaMetadata objects the callers build: agentId is required, the
\* other properties may be undefined.
MetadataObjects ==
    [agentId : AgentIds,
     conversationId : Optional(ConversationIds),
     model : Optional(Models),
     created : Optional(CreatedStamps)]

\* The metadata objects the body updates are driven with.
UpsertObjects ==
    {m \in MetadataObjects : m.conversationId = None /\ m.model = None}

OldMarker ==
    formatMetadata([agentId |-> <<"a","g","-","2">>, conversationId |-> None,
                    model |-> None,
                    created |-> Some(<<"2","0","2","4","-","0","1","-","1","5","T",
                                       "1","0",":","3","0",":","0","0","Z">>)], 0)

\* Comment bodies handed to updateMetadataInBody: without a marker, with one
\* marker, with two markers, with a start token that is never closed, empty,
\* and with an end token only.
CodecBodies ==
    { <<"D","o","n","e",".">>,
      <<"D","o","n","e",".">> \o NL \o NL \o OldMarker,
      OldMarker \o NL \o <<"D","o","n","e",".">> \o NL \o NL \o OldMarker,
      <<"o","k"," ">> \o METADATA_START,
      << >>,
      <<"a"," ">> \o METADATA_END \o <<" ","b">> }

\* ------------------------------------------------------------------------
\* The wall clock
\* ------------------------------------------------------------------------

Tick ==
    /\ now < MaxClock
    /\ now' = now + 1
    /\ UNCHANGED <<cleanupVars, relayVars, supervisorVars, outputVars, servedVars, streamVars, updateVars, exitVars, renderVars, linkedVars, triggerVars, codecVars, builderVars, githubVars, resolverVars, prepareVars, runVars>>

\* ------------------------------------------------------------------------
\* Specifications of the metadata codec: the bodies and metadata objects are
\* drawn from the sets above and the codec's functions are applied to them
\* while the clock advances.
\* ------------------------------------------------------------------------

CodecIdle ==
    /\ body = << >>
    /\ prevBody = << >>
    /\ baseBody = << >>
    /\ lastMeta = None
    /\ prevMeta = None
    /\ nUpserts = 0
    /\ rtIn = None
    /\ rtText = << >>
    /\ rtOut = None

ServedIdle ==
    /\ conversations = << >>
    /\ runs = << >>

StreamIdle ==
    /\ stream = << >>
    /\ pending = << >>

UpdateIdle ==
    /\ params = None
    /\ apiCalls = << >>
    /\ updatePc = "idle"
    /\ updateResult = None

ExitIdle ==
    /\ ending = None
    /\ exitStatus = None

RenderIdle ==
    /\ renderParts = None
    /\ renderInput = None
    /\ rendered = None

TriggerIdle ==
    /\ triggerParts = None
    /\ triggerText = << >>
    /\ trigger = None

LinkedIdle ==
    /\ bodyParts = << >>
    /\ prBody = None
    /\ linkedIssues = None

\* The side calls of runLetta: the fetch of the agent's name and the PATCH of
\* the tracking comment in updateCommentWithAgentInfo, the labeling of the
\* conversation, the write of the agent-info file.
SideCalls ==
    {"getAgentInfo", "patchComment", "updateConversationSummary",
     "writeAgentInfoFile"}

\* No core.setOutput call made by runLetta yet.
NoCoreOutputs ==
    [conclusion |-> None, agent_id |-> None, conversation_id |-> None,
     model |-> None]

\* The agent process running, nothing read from it yet.
LettaRunning ==
    [state |-> "running", code |-> None, stdoutOpen |-> TRUE, signalled |-> FALSE]

SupervisorIdle ==
    /\ mainPath = "idle"
    /\ lettaProcess = LettaRunning
    /\ subprocessErrors = {}
    /\ pipeStream = "open"
    /\ sideCalls = [c \in SideCalls |-> "unstarted"]
    /\ identity = [agentId |-> None, conversationId |-> None, modelHandle |-> None]
    /\ awaitedExit = None
    /\ coreOutputs = NoCoreOutputs
    /\ seen = << >>

NoCleanupTrace ==
    [exists |-> FALSE, commits |-> 0, dirty |-> FALSE,
     compared |-> "none", status |-> "none", deleteCalled |-> FALSE]

CleanupIdle ==
    /\ cleanupInput = None
    /\ remoteBranch = [exists |-> FALSE, commits |-> 0]
    /\ treeDirty = FALSE
    /\ cleanupAt = "idle"
    /\ shouldDeleteBranch = FALSE
    /\ branchLink = << >>
    /\ cleanupTrace = NoCleanupTrace
    /\ cleanupResult = None

RelayIdle ==
    /\ showFullOutput = FALSE
    /\ relayInput = << >>
    /\ relayAt = 0
    /\ relayLog = << >>

OutputIdle == lettaArgsOutput = None

BuilderIdle ==
    /\ runOptions = None
    /\ lettaArgs = << >>

GitHubIdle ==
    /\ ghComments = << >>
    /\ context = [entityNumber |-> 0, isPR |-> FALSE, prBody |-> None]

ResolverIdle ==
    /\ listResponses = << >>
    /\ listCalls = << >>
    /\ existingAgent = None
    /\ resolved = FALSE

PrepareIdle ==
    /\ configuredAgentId = None
    /\ outputs = None

\* Nothing captured from the agent's stdout yet.
NothingCaptured == [agentId |-> None, conversationId |-> None, modelHandle |-> None]

\* No run of the agent under way; step is the step the invocation is at.
RunIdle(step) ==
    /\ pc = step
    /\ invocation = IF step = "idle" THEN "none" ELSE "first"
    /\ commentId = 0
    /\ captured = NothingCaptured
    /\ nEvents = 0
    /\ updates = << >>
    /\ exitCode = None
    /\ runOutputs = None
    /\ previous = None

UpsertInit ==
    /\ now = 0
    /\ BuilderIdle
    /\ CleanupIdle
    /\ RelayIdle
    /\ SupervisorIdle
    /\ OutputIdle
    /\ ServedIdle
    /\ StreamIdle
    /\ UpdateIdle
    /\ ExitIdle
    /\ RenderIdle
    /\ LinkedIdle
    /\ TriggerIdle
    /\ GitHubIdle
    /\ ResolverIdle
    /\ PrepareIdle
    /\ RunIdle("idle")
    /\ body \in CodecBodies
    /\ prevBody = body
    /\ baseBody = body
    /\ lastMeta = None
    /\ prevMeta = None
    /\ nUpserts = 0
    /\ rtIn = None
    /\ rtText = << >>
    /\ rtOut = None

\* updateMetadataInBody(body, metadata), the result replacing the body.
Upsert(metadata) ==
    /\ nUpserts < MaxUpserts
    /\ prevBody' = body
    /\ body' = updateMetadataInBody(body, metadata, now)
    /\ prevMeta' = lastMeta
    /\ lastMeta' = Some(metadata)
    /\ nUpserts' = nUpserts + 1
    /\ UNCHANGED <<cleanupVars, relayVars, supervisorVars, outputVars, servedVars, streamVars, updateVars, exitVars, renderVars, linkedVars, triggerVars, now, baseBody, rtIn, rtText, rtOut, builderVars, githubVars,
                   resolverVars, prepareVars, runVars>>

UpsertNext ==
    \/ Tick
    \/ \E metadata \in UpsertObjects : Upsert(metadata)

SpecUpsert == UpsertInit /\ [][UpsertNext]_vars

\* parseMetadata(formatMetadata(metadata))
RoundTrip(metadata) ==
    /\ rtIn' = Some(metadata)
    /\ rtText' = formatMetadata(metadata, now)
    /\ rtOut' = parseMetadata(formatMetadata(metadata, now))
    /\ UNCHANGED <<cleanupVars, relayVars, supervisorVars, outputVars, servedVars, streamVars, updateVars, exitVars, renderVars, linkedVars, triggerVars, now, body, prevBody, baseBody, lastMeta, prevMeta, nUpserts,
                   builderVars, githubVars, resolverVars, prepareVars, runVars>>

RoundTripNext ==
    \/ Tick
    \/ \E metadata \in MetadataObjects : RoundTrip(metadata)

RoundTripInit ==
    /\ now = 0
    /\ CodecIdle
    /\ BuilderIdle
    /\ CleanupIdle
    /\ RelayIdle
    /\ SupervisorIdle
    /\ OutputIdle
    /\ ServedIdle
    /\ StreamIdle
    /\ UpdateIdle
    /\ ExitIdle
    /\ RenderIdle
    /\ LinkedIdle
    /\ TriggerIdle
    /\ GitHubIdle
    /\ ResolverIdle
    /\ PrepareIdle
    /\ RunIdle("idle")

SpecRoundTrip == RoundTripInit /\ [][RoundTripNext]_vars

\* ------------------------------------------------------------------------
\* Specification of the run configuration builder: prepareRunConfig is
\* applied to options drawn from the sets below.
\* ------------------------------------------------------------------------

UserAgentId == <<"a","g","-","2">>

\* The letta_args strings: undefined, empty, blank, and command lines with and
\* without the flags the builder itself emits.
UserArgStrings ==
    { << >>,
      <<" "," "," ">>,
      join(<<FLAG_AGENT, UserAgentId>>, SP),
      join(<<FLAG_AGENT_SHORT, UserAgentId>>, SP),
      join(<<FLAG_AGENT, UserAgentId, FLAG_NEW>>, SP),
      join(<<FLAG_AGENT_SHORT, UserAgentId, FLAG_NEW>>, SP),
      join(<<FLAG_AGENT, UserAgentId, <<"-","-","m","a","x","-","t","u","r","n","s">>,
             <<"5">>>>, SP),
      FLAG_NEW,
      join(<<FLAG_MODEL, <<"h","a","i","k","u">>>>, SP),
      join(<<FLAG_CONVERSATION, <<"c","v","-","9">>>>, SP),
      join(<<FLAG_OUTPUT_FORMAT, <<"t","e","x","t">>>>, SP),
      join(<<FLAG_PROMPT, <<"'","h","i"," ","y","o","u","'">>>>, SP) }

LettaOptions ==
    [lettaArgs : Optional(UserArgStrings),
     model : Optional({<<"o","p","u","s">>}),
     agentId : Optional({<<"a","g","-","1">>}),
     conversationId : Optional({<<"c","v","-","1">>}),
     createNewConversation : BOOLEAN]

BuilderInit ==
    /\ now = 0
    /\ CodecIdle
    /\ BuilderIdle
    /\ CleanupIdle
    /\ RelayIdle
    /\ SupervisorIdle
    /\ OutputIdle
    /\ ServedIdle
    /\ StreamIdle
    /\ UpdateIdle
    /\ ExitIdle
    /\ RenderIdle
    /\ LinkedIdle
    /\ TriggerIdle
    /\ GitHubIdle
    /\ ResolverIdle
    /\ PrepareIdle
    /\ RunIdle("idle")

\* prepareRunConfig(promptPath, options)
PrepareRunConfig(options) ==
    /\ runOptions' = Some(options)
    /\ lettaArgs' = prepareRunConfig(options)
    /\ UNCHANGED <<cleanupVars, relayVars, supervisorVars, outputVars, servedVars, streamVars, updateVars, exitVars, renderVars, linkedVars, triggerVars, now, codecVars, githubVars, resolverVars, prepareVars, runVars>>

BuilderNext == \E options \in LettaOptions : PrepareRunConfig(options)

SpecBuilder == BuilderInit /\ [][BuilderNext]_vars


\* ------------------------------------------------------------------------
\* Claims about the metadata codec
\* ------------------------------------------------------------------------

\* What parseMetadata would return if every property of the metadata object
\* written came back as it was, an omitted one as undefined.
SameRecord(metadata) ==
    [agentId |-> Some(metadata.agentId),
     conversationId |-> metadata.conversationId,
     model |-> metadata.model,
     created |-> metadata.created]

\* C3: parseMetadata(formatMetadata(record)) yields the record's agentId,
\* conversationId, model and created, a property omitted on write being absent
\* on read. Stated here for the records that carry their own created
\* timestamp (with or without conversationId and model), which the claim
\* covers: no default timestamp is involved for them.
C3_RoundTrip ==
    (IsSome(rtIn) /\ IsSome(rtIn[1].created))
        => rtOut = Some(SameRecord(rtIn[1]))

\* A body holds exactly one marker block: one start token, closed by an end
\* token.
ExactlyOneMarker(b) ==
    /\ CountOccurrences(b, METADATA_START) = 1
    /\ indexOfFrom(b, METADATA_END, indexOf(b, METADATA_START)) # -1

\* C4: after updateMetadataInBody the body holds exactly one marker block,
\* whatever the body was before and however many updates were made.
C4_ExactlyOneMarker ==
    nUpserts > 0 => ExactlyOneMarker(body)

\* C5 as stated: on a body without a marker, a second update with the same
\* record leaves the result of the first unchanged, for every record.
C5_Idempotent ==
    (nUpserts = 2 /\ ~hasMetadata(baseBody) /\ lastMeta = prevMeta)
        => body = prevBody

\* C5 as amended: on a body without a marker, a second update with the same
\* record leaves the result of the first unchanged when the record carries its
\* own created timestamp; without one each update stamps the time of its call.
C5_IdempotentWithCreated ==
    (nUpserts = 2 /\ ~hasMetadata(baseBody) /\ lastMeta = prevMeta
        /\ Truthy(lastMeta[1].created))
        => (body = prevBody /\ ExactlyOneMarker(body))

\* Two updates with one record carrying a created timestamp were made to a body
\* without a marker, at different clock readings.
C5_Witness ==
    /\ nUpserts = 2
    /\ now > 0
    /\ ~hasMetadata(baseBody)
    /\ baseBody # << >>
    /\ lastMeta = prevMeta
    /\ Truthy(lastMeta[1].created)
    /\ body = prevBody
    /\ body # baseBody

\* ------------------------------------------------------------------------
\* Claims about the run configuration builder
\* ------------------------------------------------------------------------

Contains(args, token) == \E i \in 1..Len(args) : args[i] = token

\* flag occurs in args directly followed by value.
ContainsPair(args, flag, value) ==
    \E i \in 1..(Len(args) - 1) : args[i] = flag /\ args[i + 1] = value

\* The user's arguments as the builder reads them.
UserTokens == customArgs(runOptions[1])

UserHasAgentFlag ==
    Contains(UserTokens, FLAG_AGENT) \/ Contains(UserTokens, FLAG_AGENT_SHORT)

UserSelectsAgent(id) ==
    ContainsPair(UserTokens, FLAG_AGENT, id)
        \/ ContainsPair(UserTokens, FLAG_AGENT_SHORT, id)

\* C2: with a resolved conversation id and a user agent flag selecting another
\* agent, the arguments select that agent, contain --new, and contain neither
\* --conversation nor the resolved conversation id nor the resolved agent id.
C2_UserAgentOverrides ==
    (IsSome(runOptions) /\ Truthy(runOptions[1].conversationId)
        /\ UserSelectsAgent(UserAgentId))
        => /\ ContainsPair(lettaArgs, FLAG_AGENT, UserAgentId)
           /\ Contains(lettaArgs, FLAG_NEW)
           /\ ~Contains(lettaArgs, FLAG_CONVERSATION)
           /\ ~Contains(lettaArgs, runOptions[1].conversationId[1])
           /\ (Truthy(runOptions[1].agentId)
                 => ~Contains(lettaArgs, runOptions[1].agentId[1]))

\* The translation of the resolved identity that C9 describes.
DirectTranslation ==
    LET o == runOptions[1]
    IN  /\ Truthy(o.conversationId)
            => /\ ContainsPair(lettaArgs, FLAG_CONVERSATION, o.conversationId[1])
               /\ ~Contains(lettaArgs, FLAG_AGENT)
        /\ (~Truthy(o.conversationId) /\ Truthy(o.agentId))
            => /\ ContainsPair(lettaArgs, FLAG_AGENT, o.agentId[1])
               /\ ~Contains(lettaArgs, FLAG_CONVERSATION)
               /\ (Contains(lettaArgs, FLAG_NEW) <=> o.createNewConversation)
        /\ (~Truthy(o.conversationId) /\ ~Truthy(o.agentId))
            => /\ ~Contains(lettaArgs, FLAG_AGENT)
               /\ ~Contains(lettaArgs, FLAG_CONVERSATION)

\* C9 as stated: without an agent flag in the user args the resolved identity
\* is translated directly: --conversation <id> and no --agent for a
\* conversation id; --agent <id>, no --conversation, and --new exactly when
\* createNewConversation is set for an agent id alone; neither flag otherwise.
C9_DirectTranslation ==
    (IsSome(runOptions) /\ ~UserHasAgentFlag) => DirectTranslation

\* C9 as amended: the same, for user args that contain none of the identity
\* flags (--agent, -a, --new, --conversation); user arguments are passed
\* through, so such a flag of the user's appears in the result as well.
C9_DirectTranslationNoIdentityFlags ==
    (IsSome(runOptions) /\ ~UserHasAgentFlag
        /\ ~Contains(UserTokens, FLAG_NEW)
        /\ ~Contains(UserTokens, FLAG_CONVERSATION))
        => DirectTranslation

\* An agent id without a conversation id, createNewConversation set, and user
\* args that hold other flags only: --agent <id> --new was emitted.
C9_Witness ==
    /\ IsSome(runOptions)
    /\ ~Truthy(runOptions[1].conversationId)
    /\ Truthy(runOptions[1].agentId)
    /\ runOptions[1].createNewConversation
    /\ UserTokens # << >>
    /\ ~UserHasAgentFlag
    /\ ~Contains(UserTokens, FLAG_NEW)
    /\ ~Contains(UserTokens, FLAG_CONVERSATION)
    /\ ContainsPair(lettaArgs, FLAG_AGENT, runOptions[1].agentId[1])
    /\ Contains(lettaArgs, FLAG_NEW)

\* C10: with --new in the user args (and no agent flag) and a resolved
\* conversation id, the arguments contain --new and neither --conversation nor
\* the conversation id, and --agent <agentId> exactly when an agent id is known.
C10_UserNewKeepsAgent ==
    (IsSome(runOptions) /\ Truthy(runOptions[1].conversationId)
        /\ Contains(UserTokens, FLAG_NEW) /\ ~UserHasAgentFlag)
        => /\ Contains(lettaArgs, FLAG_NEW)
           /\ ~Contains(lettaArgs, FLAG_CONVERSATION)
           /\ ~Contains(lettaArgs, runOptions[1].conversationId[1])
           /\ (Truthy(runOptions[1].agentId)
                 <=> Contains(lettaArgs, FLAG_AGENT))
           /\ (Truthy(runOptions[1].agentId)
                 => ContainsPair(lettaArgs, FLAG_AGENT, runOptions[1].agentId[1]))

\* ------------------------------------------------------------------------
\* Specification of the resolver: the threads of a repository hold comments
\* drawn from the sets below, an event arrives on thread 7, and
\* findExistingAgent runs against a comment lister that may fail per issue
\* and returns the comments of an issue in an order of its choosing.
\* ------------------------------------------------------------------------

GitHubActionsUser ==
    [id |-> 41898282, type |-> "Bot", login |-> GITHUB_ACTIONS_LOGIN]

LettaAppUser ==
    [id |-> LETTA_APP_BOT_ID, type |-> "Bot",
     login |-> <<"l","e","t","t","a","-","c","o","d","e","[","b","o","t","]">>]

LettaDevUser ==
    [id |-> 9001, type |-> "Bot",
     login |-> <<"L","e","t","t","a","-","C","o","d","e","-","D","e","v","[","b","o","t","]">>]

HumanUser == [id |-> 1001, type |-> "User", login |-> <<"a","l","i","c","e">>]

\* A comment body that ends in a metadata marker naming the agent and,
\* optionally, the conversation.
ThreadBody(agentId, conversationId) ==
    <<"D","o","n","e",".">> \o NL \o NL \o METADATA_START \o NL
        \o <<"a","g","e","n","t","_","i","d",":"," ">> \o agentId \o NL
        \o (IF IsSome(conversationId)
            THEN <<"c","o","n","v","e","r","s","a","t","i","o","n","_","i","d",":"," ">>
                    \o conversationId[1] \o NL
            ELSE << >>)
        \o <<"c","r","e","a","t","e","d",":"," ","2","0","2","4","-","0","1","-",
             "1","5","T","1","0",":","3","0",":","0","0","Z">>
        \o NL \o METADATA_END

\* The authors and bodies of the comments of the thread of the event: three
\* with a marker (by the CI bot, by the Letta app, by a person), one by a
\* Letta bot without a marker, one with a marker whose author is gone, and one
\* by the CI bot without a body.
CommentKinds ==
    { [user |-> Some(GitHubActionsUser),
       body |-> Some(ThreadBody(<<"a","g","-","1">>, Some(<<"c","v","-","1">>)))],
      [user |-> Some(LettaAppUser),
       body |-> Some(ThreadBody(<<"a","g","-","2">>, None))],
      [user |-> Some(HumanUser),
       body |-> Some(ThreadBody(<<"a","g","-","3">>, None))],
      [user |-> Some(LettaDevUser),
       body |-> Some(<<"D","o","n","e",".">>)],
      [user |-> None,
       body |-> Some(ThreadBody(<<"a","g","-","3">>, None))],
      [user |-> Some(GitHubActionsUser),
       body |-> None] }

\* The comments of issue n whose authors and bodies are kinds, created in
\* that order.
CommentsOf(n, kinds) ==
    [i \in 1..Len(kinds) |->
        [id |-> n * 100 + i, user |-> kinds[i].user, body |-> kinds[i].body,
         created_at |-> i]]

OwnThreads ==
    {CommentsOf(7, kinds) :
        kinds \in UNION {[1..k -> CommentKinds] : k \in 0..MaxComments}}

LinkedThreads(n, agentId, conversationId) ==
    { << >>,
      CommentsOf(n, <<[user |-> Some(GitHubActionsUser),
                       body |-> Some(ThreadBody(agentId, conversationId))]>>) }

\* The events: a comment on issue 7, or on pull request 7 whose description
\* is empty, names issue 42, or names issues 43 and 42.
Contexts ==
    { [entityNumber |-> 7, isPR |-> FALSE, prBody |-> None] }
    \cup
    { [entityNumber |-> 7, isPR |-> TRUE, prBody |-> Some(b)] :
        b \in { << >>,
                <<"F","i","x","e","s"," ","#","4","2">>,
                <<"S","e","e"," ","#","4","3",","," ","c","l","o","s","e","s"," ",
                  "#","4","2">> } }

\* The comments cs in the order p, a permutation of positions: the positions
\* beyond the length of cs are skipped.
InOrder(cs, p) ==
    LET sel == SelectSeq(p, LAMBDA i : i <= Len(cs))
    IN  [i \in 1..Len(cs) |-> cs[sel[i]]]

\* The permutations of the positions 1..n, as sequences.
PermutationsOf(n) ==
    {q \in [1..n -> 1..n] : \A i, j \in 1..n : i # j => q[i] # q[j]}

\* What octokit.issues.listComments may answer per issue number: a rejection
\* for the issues of fails, else the comments of the issue in the order p.
ListerAnswer(fails, p) ==
    [n \in DOMAIN ghComments |->
        IF n \in fails THEN [ok |-> FALSE, data |-> << >>]
        ELSE [ok |-> TRUE, data |-> InOrder(ghComments[n], p)]]

ResolverInit ==
    /\ now = 0
    /\ CodecIdle
    /\ BuilderIdle
    /\ CleanupIdle
    /\ RelayIdle
    /\ SupervisorIdle
    /\ OutputIdle
    /\ ServedIdle
    /\ StreamIdle
    /\ UpdateIdle
    /\ ExitIdle
    /\ RenderIdle
    /\ LinkedIdle
    /\ TriggerIdle
    /\ ResolverIdle
    /\ PrepareIdle
    /\ RunIdle("triggered")
    /\ context \in Contexts
    /\ \E own \in OwnThreads :
       \E t42 \in LinkedThreads(42, <<"a","g","-","4">>, Some(<<"c","v","-","4">>)) :
       \E t43 \in LinkedThreads(43, <<"a","g","-","5">>, None) :
          ghComments = (7 :> own) @@ (42 :> t42) @@ (43 :> t43)

\* The number of comments of the longest thread.
LongestThread ==
    CHOOSE k \in {Len(ghComments[n]) : n \in DOMAIN ghComments} :
        \A n \in DOMAIN ghComments : Len(ghComments[n]) <= k

\* The call of findExistingAgent in tagMode.prepare for the event.
FindExistingAgent ==
    /\ pc = "triggered"
    /\ ~resolved
    /\ \E fails \in SUBSET DOMAIN ghComments, p \in PermutationsOf(LongestThread) :
       \E lc \in {ListerAnswer(fails, p)} :
       \E found \in {findExistingAgent(lc, context.entityNumber,
                         [isPR |-> context.isPR, prBody |-> context.prBody])} :
          /\ existingAgent' = found.result
          /\ listCalls' = found.calls
          /\ listResponses' =
                [n \in {found.calls[i] : i \in 1..Len(found.calls)} \cap DOMAIN lc
                    |-> lc[n]]
    /\ resolved' = TRUE
    /\ UNCHANGED <<cleanupVars, relayVars, supervisorVars, outputVars, servedVars, streamVars, updateVars, exitVars, renderVars, linkedVars, triggerVars, now, codecVars, builderVars, githubVars, prepareVars, runVars>>

ResolverNext == FindExistingAgent

SpecResolver == ResolverInit /\ [][ResolverNext]_vars

\* ------------------------------------------------------------------------
\* Specification of the outputs of tagMode.prepare: findExistingAgent has
\* returned a value of its result type (an ExistingAgentInfo or null), the
\* agent_id input is unset, empty or names an agent, and prepare sets its
\* outputs.
\* ------------------------------------------------------------------------

ExistingAgentInfos ==
    [agentId : AgentIds,
     conversationId : Optional(ConversationIds),
     model : Optional(Models),
     commentId : {701},
     created : Optional(CreatedStamps),
     linkedFromIssue : Optional({42})]

ConfiguredAgentIds == {None, Some(<< >>)} \cup {Some(a) : a \in AgentIds}

PrepareInit ==
    /\ now = 0
    /\ CodecIdle
    /\ BuilderIdle
    /\ CleanupIdle
    /\ RelayIdle
    /\ SupervisorIdle
    /\ OutputIdle
    /\ ServedIdle
    /\ StreamIdle
    /\ UpdateIdle
    /\ ExitIdle
    /\ RenderIdle
    /\ LinkedIdle
    /\ TriggerIdle
    /\ GitHubIdle
    /\ listResponses = << >>
    /\ listCalls = << >>
    /\ existingAgent \in Optional(ExistingAgentInfos)
    /\ resolved = TRUE
    /\ configuredAgentId \in ConfiguredAgentIds
    /\ outputs = None
    /\ RunIdle("triggered")

\* tagMode.prepare from the return of findExistingAgent to the last
\* core.setOutput of the identity.
SetOutputs ==
    /\ pc = "triggered"
    /\ resolved
    /\ outputs = None
    /\ outputs' = Some(prepare(configuredAgentId, existingAgent))
    /\ UNCHANGED <<cleanupVars, relayVars, supervisorVars, outputVars, servedVars, streamVars, updateVars, exitVars, renderVars, linkedVars, triggerVars, now, codecVars, builderVars, githubVars, resolverVars,
                   configuredAgentId, runVars>>

PrepareNext == SetOutputs

SpecPrepare == PrepareInit /\ [][PrepareNext]_vars

\* ------------------------------------------------------------------------
\* Claims about the resolver
\* ------------------------------------------------------------------------

\* The thread of the event.
OwnComments == ghComments[context.entityNumber]

\* Whether the comment is by a recognized bot and its body parses to a record.
Discoverable(comment) ==
    /\ isLettaBot(comment)
    /\ Truthy(comment.body)
    /\ IsSome(parseMetadata(comment.body[1]))

\* Whether the listing of issue n succeeded in the latest resolution.
ListingOk(n) == n \in DOMAIN listResponses /\ listResponses[n].ok

\* Whether findExistingAgent's result is the record of the comment, found on
\* the linked issue tag (None for the thread of the event).
ResultIsRecordOf(comment, tag) ==
    /\ IsSome(existingAgent)
    /\ existingAgent[1].commentId = comment.id
    /\ existingAgent[1].agentId = parseMetadata(comment.body[1])[1]["agentId"][1]
    /\ existingAgent[1].linkedFromIssue = tag

\* C6: on a single thread the resolver returns the record of the newest
\* comment, by creation time, among the comments that are by a recognized bot
\* and parse to a record, whatever order the lister returns the comments in.
C6_NewestRecord ==
    (/\ resolved
     /\ ListingOk(context.entityNumber)
     /\ \E i \in 1..Len(OwnComments) : Discoverable(OwnComments[i]))
    => \E i \in 1..Len(OwnComments) :
          /\ Discoverable(OwnComments[i])
          /\ \A j \in 1..Len(OwnComments) :
                Discoverable(OwnComments[j])
                    => OwnComments[j].created_at <= OwnComments[i].created_at
          /\ ResultIsRecordOf(OwnComments[i], None)

\* The linked issues of the event, in the order of extractLinkedIssues.
LinkedIssues == extractLinkedIssues(context.prBody)

\* Whether the listing of issue n succeeded and holds a discoverable record.
HoldsRecord(n) ==
    /\ ListingOk(n)
    /\ \E i \in 1..Len(listResponses[n].data) :
          Discoverable(listResponses[n].data[i])

\* The number of linked issues consulted by the latest resolution.
Consulted == Len(listCalls) - 1

\* C7: for a pull request whose own comments yield no record, the linked
\* issues are searched in the order of extractLinkedIssues(prBody), the search
\* stops at the first issue holding a discoverable record, and that record is
\* returned tagged with linkedFromIssue; for an issue, or when the thread's
\* own comments yield a record, no linked issue is consulted and
\* linkedFromIssue is absent.
C7_LinkedIssueFallback ==
    (resolved /\ ListingOk(context.entityNumber))
    => IF context.isPR /\ ~HoldsRecord(context.entityNumber)
       THEN /\ Consulted \in 0..Len(LinkedIssues)
            /\ listCalls = <<context.entityNumber>> \o SubSeq(LinkedIssues, 1, Consulted)
            /\ \A k \in 1..(Consulted - 1) : ~HoldsRecord(LinkedIssues[k])
            /\ IF Consulted > 0 /\ HoldsRecord(LinkedIssues[Consulted])
               THEN \E i \in 1..Len(listResponses[LinkedIssues[Consulted]].data) :
                       LET comment == listResponses[LinkedIssues[Consulted]].data[i]
                       IN  /\ Discoverable(comment)
                           /\ ResultIsRecordOf(comment, Some(LinkedIssues[Consulted]))
               ELSE Consulted = Len(LinkedIssues) /\ existingAgent = None
       ELSE /\ listCalls = <<context.entityNumber>>
            /\ IsSome(existingAgent) => existingAgent[1].linkedFromIssue = None
            /\ ~context.isPR /\ ~HoldsRecord(context.entityNumber)
                  => existingAgent = None

\* A pull request without a record of its own names issues 42 and 43 in that
\* order; issue 42 yields nothing and the record of issue 43 is returned.
C7_Witness ==
    /\ resolved
    /\ context.isPR
    /\ ~HoldsRecord(context.entityNumber)
    /\ listCalls = <<7, 42, 43>>
    /\ IsSome(existingAgent)
    /\ existingAgent[1].linkedFromIssue = Some(43)

\* ------------------------------------------------------------------------
\* Claims about the outputs of tagMode.prepare
\* ------------------------------------------------------------------------

\* The discovery results: none, an agent-only record, a record with a
\* conversation id.
FoundNone == existingAgent = None

FoundAgentOnly == IsSome(existingAgent) /\ ~Truthy(existingAgent[1].conversationId)

FoundConversation == IsSome(existingAgent) /\ Truthy(existingAgent[1].conversationId)

\* The resolved identities, read off the outputs o.
IsCreateNew(o) ==
    /\ o.agent_id = None
    /\ o.conversation_id = None
    /\ o.create_new_conversation = Some("true")
    /\ o.is_followup = Some("false")

IsUseConfiguredAgentNewConversation(o) ==
    /\ IsSome(o.agent_id)
    /\ o.conversation_id = None
    /\ o.create_new_conversation = Some("true")
    /\ o.is_followup = Some("false")

IsResumeAgentNewConversation(o) ==
    /\ IsSome(o.agent_id)
    /\ o.conversation_id = None
    /\ o.create_new_conversation = Some("true")
    /\ o.is_followup = Some("true")

IsResumeConversation(o) ==
    /\ IsSome(o.agent_id)
    /\ IsSome(o.conversation_id)
    /\ o.create_new_conversation = Some("false")
    /\ o.is_followup = Some("true")

\* Exactly one of the four identities holds of the outputs o.
ExactlyOneIdentity(o) ==
    Cardinality({v \in {"CreateNew", "UseConfigured", "ResumeAgent", "ResumeConversation"} :
        \/ v = "CreateNew" /\ IsCreateNew(o)
        \/ v = "UseConfigured" /\ IsUseConfiguredAgentNewConversation(o)
        \/ v = "ResumeAgent" /\ IsResumeAgentNewConversation(o)
        \/ v = "ResumeConversation" /\ IsResumeConversation(o)}) = 1

\* What the claim says of the combinations other than an agent-only record.
IdentityOfOtherCases(o) ==
    /\ ExactlyOneIdentity(o)
    /\ (FoundNone /\ ~Truthy(configuredAgentId)) => IsCreateNew(o)
    /\ (FoundNone /\ Truthy(configuredAgentId))
          => /\ IsUseConfiguredAgentNewConversation(o)
             /\ o.agent_id = Some(configuredAgentId[1])
    /\ FoundConversation
          => /\ IsResumeConversation(o)
             /\ o.conversation_id = Some(existingAgent[1].conversationId[1])
    /\ IsSome(o.conversation_id) <=> o.create_new_conversation = Some("false")

\* C8 as stated: for every combination of configured agent id and discovery
\* result prepare produces exactly one identity; in particular an agent-only
\* record gives ResumeAgentNewConversation with agent_id the discovered id,
\* whether or not an agent id is configured.
C8_ResolvedIdentity ==
    IsSome(outputs)
    => /\ IdentityOfOtherCases(outputs[1])
       /\ FoundAgentOnly
             => /\ outputs[1].agent_id = Some(existingAgent[1].agentId)
                /\ outputs[1].create_new_conversation = Some("true")

\* C8 amended: as above, except that an agent-only record gives
\* ResumeAgentNewConversation with the discovered id only when no agent id is
\* configured; with a configured agent id it gives
\* UseConfiguredAgentNewConversation with the configured id.
C8_ResolvedIdentityConfiguredFirst ==
    IsSome(outputs)
    => /\ IdentityOfOtherCases(outputs[1])
       /\ (FoundAgentOnly /\ ~Truthy(configuredAgentId))
             => /\ IsResumeAgentNewConversation(outputs[1])
                /\ outputs[1].agent_id = Some(existingAgent[1].agentId)
       /\ (FoundAgentOnly /\ Truthy(configuredAgentId))
             => /\ IsUseConfiguredAgentNewConversation(outputs[1])
                /\ outputs[1].agent_id = Some(configuredAgentId[1])

\* prepare has set its outputs for a configured agent and an agent-only
\* record of another agent.
C8_Witness ==
    /\ IsSome(outputs)
    /\ Truthy(configuredAgentId)
    /\ FoundAgentOnly
    /\ existingAgent[1].agentId # configuredAgentId[1]
    /\ outputs[1].agent_id = Some(configuredAgentId[1])

\* ------------------------------------------------------------------------
\* Specification of the action: two invocations, one after the other, on
\* issue 7, which starts without comments. An invocation resolves the
\* identity (tagMode.prepare), creates its tracking comment, runs the agent
\* (runLetta) and rewrites the comment when the run has ended.
\* ------------------------------------------------------------------------

\* The link to the job run, built from GITHUB_SERVER_URL, GITHUB_REPOSITORY and
\* GITHUB_RUN_ID.
JOB_LINK == <<"h","t","t","p","s",":","/","/","g","i","t","h","u","b",".","c",
              "o","m","/","o","/","r","/","a","c","t","i","o","n","s","/","r",
              "u","n","s","/","1">>

\* The user who triggered the run.
TRIGGER_USERNAME == <<"a","l","i","c","e">>

\* The name getAgentInfo reports for an agent.
AGENT_NAME == <<"h","e","l","p","e","r">>

\* The comments cs with the body of comment id replaced by b.
withBody(cs, id, b) ==
    [i \in 1..Len(cs) |->
        IF cs[i].id = id THEN [cs[i] EXCEPT !.body = Some(b)] ELSE cs[i]]

\* The body of comment id among the comments cs.
bodyOf(cs, id) ==
    (CHOOSE c \in {cs[i] : i \in 1..Len(cs)} : c.id = id).body[1]

ActionInit ==
    /\ now = 0
    /\ CodecIdle
    /\ BuilderIdle
    /\ CleanupIdle
    /\ RelayIdle
    /\ SupervisorIdle
    /\ OutputIdle
    /\ ServedIdle
    /\ StreamIdle
    /\ UpdateIdle
    /\ ExitIdle
    /\ RenderIdle
    /\ LinkedIdle
    /\ TriggerIdle
    /\ ResolverIdle
    /\ RunIdle("idle")
    /\ ghComments = (7 :> << >>)
    /\ context = [entityNumber |-> 7, isPR |-> FALSE, prBody |-> None]
    /\ configuredAgentId = None
    /\ outputs = None

\* A comment that triggers the action arrives on the thread; the invocation
\* before it, if any, has rewritten its tracking comment and its job has
\* ended, and with the job every process the run has left behind.
Trigger ==
    /\ pc \in {"idle", "terminal"}
    /\ invocation \in {"none", "first"}
    /\ invocation' = IF invocation = "none" THEN "first" ELSE "next"
    /\ pc' = "triggered"
    /\ previous' =
          IF pc = "terminal"
          THEN Some([noPriorRecord |->
                        /\ existingAgent = None
                        /\ context.entityNumber \in DOMAIN listResponses
                        /\ listResponses[context.entityNumber].ok,
                     agentId |-> captured.agentId,
                     conversationId |-> captured.conversationId,
                     exitCode |-> exitCode[1]])
          ELSE None
    /\ listResponses' = << >>
    /\ listCalls' = << >>
    /\ existingAgent' = None
    /\ resolved' = FALSE
    /\ outputs' = None
    /\ commentId' = 0
    /\ captured' = NothingCaptured
    /\ nEvents' = 0
    /\ exitCode' = None
    /\ ending' = None
    /\ exitStatus' = None
    /\ runOutputs' = None
    /\ updates' = << >>
    /\ UNCHANGED <<cleanupVars, relayVars, supervisorVars, outputVars, servedVars, streamVars, updateVars, renderVars, linkedVars, triggerVars, now, codecVars, builderVars, githubVars, configuredAgentId>>

\* createInitialComment: the tracking comment is created with the placeholder
\* body, by the identity of the workflow token.
CreateInitialComment ==
    /\ pc = "triggered"
    /\ IsSome(outputs)
    /\ Len(ghComments[context.entityNumber]) < MaxRuns
    /\ LET n == context.entityNumber
           id == n * 100 + Len(ghComments[n]) + 1
       IN  /\ ghComments' =
                 [ghComments EXCEPT ![n] =
                     Append(@, [id |-> id, user |-> Some(GitHubActionsUser),
                                body |-> Some(WORKING_LINE),
                                created_at |-> Len(ghComments[n]) + 1])]
           /\ commentId' = id
    /\ pc' = "prepared"
    /\ UNCHANGED <<cleanupVars, relayVars, supervisorVars, outputVars, servedVars, streamVars, updateVars, exitVars, renderVars, linkedVars, triggerVars, now, codecVars, builderVars, context, resolverVars,
                   prepareVars, invocation, captured, nEvents, updates, exitCode,
                   runOutputs, previous>>

\* The options run() hands to runLetta: the agent id is the agent_id output
\* of prepare.
envOptions ==
    [lettaArgs |-> None, model |-> None, agentId |-> outputs[1].agent_id,
     conversationId |-> None, createNewConversation |-> FALSE]

\* runLetta up to the spawn of the agent process.
StartRun ==
    /\ pc = "prepared"
    /\ runOptions' = Some(envOptions)
    /\ lettaArgs' = prepareRunConfig(envOptions)
    /\ pc' = "running"
    /\ UNCHANGED <<cleanupVars, relayVars, supervisorVars, outputVars, servedVars, streamVars, updateVars, exitVars, renderVars, linkedVars, triggerVars, now, codecVars, githubVars, resolverVars, prepareVars,
                   invocation, commentId, captured, nEvents, updates, exitCode,
                   runOutputs, previous>>

\* The agent ids and conversation ids the Letta CLI may report.
CliAgentIds == {<<"a","g","-","1">>}

CliConversationIds == {<<"c","v","-","1">>}

\* The first position of the flag before the last argument, or None.
flagIndex(args, flag) ==
    LET at == {i \in 1..(Len(args) - 1) : args[i] = flag}
    IN  IF at = {} THEN None ELSE Some(SetMin(at))

\* The parsed lines the agent process may print: the init event, whose agent
\* is the one of --agent and whose conversation is the one of --conversation
\* when the flags are given, and a result event that carries no ids.
StreamEvents(args) ==
    {[type |-> "system", subtype |-> "init", agent_id |-> Some(a),
      conversation_id |-> c, model |-> Some(<<"o","p","u","s">>)] :
        a \in (IF IsSome(flagIndex(args, FLAG_AGENT))
               THEN {args[flagIndex(args, FLAG_AGENT)[1] + 1]}
               ELSE CliAgentIds),
        c \in (IF IsSome(flagIndex(args, FLAG_CONVERSATION))
               THEN {Some(args[flagIndex(args, FLAG_CONVERSATION)[1] + 1])}
               ELSE {None} \cup {Some(v) : v \in CliConversationIds})}
    \cup {[type |-> "result", subtype |-> "success", agent_id |-> None,
           conversation_id |-> None, model |-> None]}

\* The stdout handler of runLetta, for one parsed line.
StdoutEvent(parsed) ==
    /\ pc = "running"
    /\ nEvents < MaxEvents
    /\ nEvents' = nEvents + 1
    /\ captured' =
          [agentId |-> IF Truthy(parsed.agent_id) THEN parsed.agent_id
                       ELSE captured.agentId,
           conversationId |-> IF Truthy(parsed.conversation_id)
                              THEN parsed.conversation_id
                              ELSE captured.conversationId,
           modelHandle |-> IF Truthy(parsed.model) THEN parsed.model
                           ELSE captured.modelHandle]
    /\ updates' =
          IF parsed.type = "system" /\ parsed.subtype = "init"
             /\ Truthy(parsed.agent_id)
          THEN Append(updates,
                  [commentId |-> commentId, agentId |-> parsed.agent_id[1],
                   conversationId |-> parsed.conversation_id,
                   agentDisplayName |-> parsed.agent_id[1],
                   stage |-> "getAgentInfo"])
          ELSE updates
    /\ UNCHANGED <<cleanupVars, relayVars, supervisorVars, outputVars, servedVars, streamVars, updateVars, exitVars, renderVars, linkedVars, triggerVars, now, codecVars, builderVars, githubVars, resolverVars,
                   prepareVars, pc, invocation, commentId, exitCode, runOutputs,
                   previous>>

\* updateCommentWithAgentInfo, first half: getAgentInfo answers with the
\* agent's name, or fails and the id stands for the name.
FetchAgentName(i, named) ==
    /\ pc \in {"running", "closed", "finished"}
    /\ i \in 1..Len(updates)
    /\ updates[i].stage = "getAgentInfo"
    /\ updates' =
          [updates EXCEPT ![i] =
              [@ EXCEPT !.stage = "patch",
                        !.agentDisplayName =
                            IF named THEN AGENT_NAME ELSE @]]
    /\ UNCHANGED <<cleanupVars, relayVars, supervisorVars, outputVars, servedVars, streamVars, updateVars, exitVars, renderVars, linkedVars, triggerVars, now, codecVars, builderVars, githubVars, resolverVars,
                   prepareVars, pc, invocation, commentId, captured, nEvents,
                   exitCode, runOutputs, previous>>

\* updateCommentWithAgentInfo, second half: the PATCH of the comment, whose
\* failure is caught and logged.
ApplyUpdate(i, patched) ==
    /\ i \in 1..Len(updates)
    /\ updates[i].stage = "patch"
    /\ LET u == updates[i]
           n == context.entityNumber
       IN  ghComments' =
              IF patched
              THEN [ghComments EXCEPT ![n] =
                      withBody(@, u.commentId,
                          runningBody(u.agentId, u.agentDisplayName,
                                      u.conversationId, JOB_LINK))]
              ELSE ghComments
    /\ updates' = [j \in 1..(Len(updates) - 1) |->
                      IF j < i THEN updates[j] ELSE updates[j + 1]]
    /\ UNCHANGED <<cleanupVars, relayVars, supervisorVars, outputVars, servedVars, streamVars, updateVars, exitVars, renderVars, linkedVars, triggerVars, now, codecVars, builderVars, context, resolverVars,
                   prepareVars, pc, invocation, commentId, captured, nEvents,
                   exitCode, runOutputs, previous>>

\* What the agent writes into the comment.
AGENT_CONTENT == <<"D","o","n","e",".">>

\* The agent, while it runs, edits its tracking comment: it replaces the
\* body with its content.
AgentEdit ==
    /\ pc = "running"
    /\ bodyOf(ghComments[context.entityNumber], commentId) # AGENT_CONTENT
    /\ ghComments' =
          [ghComments EXCEPT ![context.entityNumber] =
              withBody(@, commentId, AGENT_CONTENT)]
    /\ UNCHANGED <<cleanupVars, relayVars, supervisorVars, outputVars, servedVars, streamVars, updateVars, exitVars, renderVars, linkedVars,
                   triggerVars, now, codecVars, builderVars, context,
                   resolverVars, prepareVars, runVars>>

\* The ways the wait for the agent process ends: its close event, with the
\* exit code of the process, or with null for a process a signal ended, or
\* its error event.
Endings ==
    {[event |-> "close", code |-> Some(0)], [event |-> "close", code |-> Some(1)],
     [event |-> "close", code |-> None], [event |-> "error", code |-> None]}

\* The exit code the promise resolves with: code || 0 for the close event, 1
\* for the error event.
resolvedCode(end) ==
    IF end.event = "error" THEN 1
    ELSE IF end.code = None \/ end.code = Some(0) THEN 0
    ELSE end.code[1]

Close(end) ==
    /\ pc = "running"
    /\ ending' = Some(end)
    /\ exitCode' = Some(resolvedCode(end))
    /\ pc' = "closed"
    /\ UNCHANGED <<cleanupVars, relayVars, supervisorVars, outputVars, servedVars, streamVars, updateVars, exitStatus, renderVars, linkedVars, triggerVars, now, codecVars,
                   builderVars, githubVars, resolverVars, prepareVars,
                   invocation, commentId, captured, nEvents, updates,
                   runOutputs, previous>>

\* runLetta after the process has ended: the outputs are set; latest is what
\* getLatestConversation answers when the stream named an agent but no
\* conversation (None when it fails or finds none). On a failure the run
\* ends with process.exit, which drops the comment updates that have not
\* reached their PATCH.
Finish(latest) ==
    /\ pc = "closed"
    /\ LET asked == ~Truthy(captured.conversationId) /\ Truthy(captured.agentId)
           conversationId == IF asked THEN latest ELSE captured.conversationId
       IN  /\ (~asked => latest = None)
           /\ runOutputs' =
                 Some([conclusion |-> IF exitCode[1] = 0 THEN "success"
                                      ELSE "failure",
                       agent_id |-> IF Truthy(captured.agentId)
                                    THEN captured.agentId ELSE None,
                       conversation_id |-> IF Truthy(conversationId)
                                           THEN conversationId ELSE None,
                       model |-> IF Truthy(captured.modelHandle)
                                 THEN captured.modelHandle ELSE None])
    /\ updates' = IF exitCode[1] = 0 THEN updates
                  ELSE SelectSeq(updates, LAMBDA u : u.stage = "patch")
    /\ exitStatus' = IF exitCode[1] = 0 THEN None ELSE exitCode
    /\ pc' = "finished"
    /\ UNCHANGED <<cleanupVars, relayVars, supervisorVars, outputVars, servedVars, streamVars, updateVars, ending, renderVars, linkedVars, triggerVars, now, codecVars, builderVars, githubVars, resolverVars,
                   prepareVars, invocation, commentId, captured, nEvents,
                   exitCode, previous>>

\* The rewrite of the tracking comment after the run: updateCommentBody on
\* the comment's body with the outputs of the run. A run that ended with
\* code 0 has completed its comment updates before its process ends.
TerminalUpdate ==
    /\ pc = "finished"
    /\ exitCode[1] = 0 => updates = << >>
    /\ LET n == context.entityNumber
           input == [currentBody |-> bodyOf(ghComments[n], commentId),
                     actionFailed |-> runOutputs[1].conclusion = "failure",
                     jobUrl |-> JOB_LINK,
                     triggerUsername |-> Some(TRIGGER_USERNAME),
                     agentId |-> runOutputs[1].agent_id,
                     conversationId |-> runOutputs[1].conversation_id,
                     model |-> runOutputs[1].model]
       IN  ghComments' =
              [ghComments EXCEPT ![n] =
                  withBody(@, commentId, updateCommentBody(input, now))]
    /\ pc' = "terminal"
    /\ UNCHANGED <<cleanupVars, relayVars, supervisorVars, outputVars, servedVars, streamVars, updateVars, exitVars, renderVars, linkedVars, triggerVars, now, codecVars, builderVars, context, resolverVars,
                   prepareVars, invocation, commentId, captured, nEvents, updates,
                   exitCode, runOutputs, previous>>

ActionNext ==
    \/ Trigger
    \/ FindExistingAgent
    \/ SetOutputs
    \/ CreateInitialComment
    \/ StartRun
    \/ \E parsed \in StreamEvents(lettaArgs) : StdoutEvent(parsed)
    \/ \E i \in 1..Len(updates), named \in BOOLEAN : FetchAgentName(i, named)
    \/ \E i \in 1..Len(updates), patched \in BOOLEAN : ApplyUpdate(i, patched)
    \/ AgentEdit
    \/ \E end \in Endings : Close(end)
    \/ \E latest \in {None} \cup {Some(v) : v \in CliConversationIds} :
          Finish(latest)
    \/ TerminalUpdate

Spec == ActionInit /\ [][ActionNext]_vars

\* ------------------------------------------------------------------------
\* Claims about the action across invocations
\* ------------------------------------------------------------------------

\* The invocation before this one started on a thread without a record, read
\* agent id and conversation id in the stream of its agent process, saw the
\* process exit with code 0 and rewrote its tracking comment.
PreviousRanToCompletion ==
    /\ invocation = "next"
    /\ IsSome(previous)
    /\ previous[1].noPriorRecord
    /\ Truthy(previous[1].agentId)
    /\ Truthy(previous[1].conversationId)
    /\ previous[1].exitCode = 0

\* C1: when the first invocation on an issue starts without a prior record,
\* its agent process emits an init event with agent_id A and conversation_id
\* C and exits with code 0, so that the tracking comment gets its final
\* rewrite, then the next invocation on the issue, once it has listed the
\* comments, resolves to ResumeConversation with agent A and conversation C.
C1_ResumeAcrossInvocations ==
    (PreviousRanToCompletion /\ IsSome(outputs)
        /\ ListingOk(context.entityNumber))
    => /\ IsResumeConversation(outputs[1])
       /\ outputs[1].agent_id = previous[1].agentId
       /\ outputs[1].conversation_id = previous[1].conversationId

\* ------------------------------------------------------------------------
\* Claims about the positions of the fixed flags in lettaArgs
\* ------------------------------------------------------------------------

\* The number of elements of args that equal token.
Occurrences(args, token) == Cardinality({i \in 1..Len(args) : args[i] = token})

\* The position in lettaArgs of the first of the user's arguments, which the
\* builder emits just before BASE_ARGS.
FirstUserPosition == Len(lettaArgs) - Len(BASE_ARGS) - Len(UserTokens) + 1

\* C11: for every input of prepareRunConfig the last two elements of
\* lettaArgs are --output-format and stream-json, and the user's arguments,
\* all of them, come directly before these two.
C11_OutputFormatLast ==
    IsSome(runOptions)
    => LET n == Len(lettaArgs)
       IN  /\ n >= 2 + Len(UserTokens)
           /\ lettaArgs[n - 1] = FLAG_OUTPUT_FORMAT
           /\ lettaArgs[n] = <<"s","t","r","e","a","m","-","j","s","o","n">>
           /\ SubSeq(lettaArgs, n - 1 - Len(UserTokens), n - 2) = UserTokens

\* prepareRunConfig was called with user arguments that hold --output-format
\* themselves, and the arguments built hold the flag twice.
C11_Witness ==
    /\ IsSome(runOptions)
    /\ Contains(UserTokens, FLAG_OUTPUT_FORMAT)
    /\ Occurrences(lettaArgs, FLAG_OUTPUT_FORMAT) = 2

\* C12: for every input of prepareRunConfig the flag -p occurs exactly once
\* in lettaArgs, before all of the user's arguments, also when the user's
\* arguments hold -p or --prompt themselves.
C12_PromptFlagOnce ==
    IsSome(runOptions)
    => /\ Occurrences(lettaArgs, FLAG_PROMPT) = 1
       /\ \E i \in 1..(FirstUserPosition - 1) : lettaArgs[i] = FLAG_PROMPT

\* ------------------------------------------------------------------------
\* Specification of the trigger parser: a comment text is put together from
\* a trigger phrase, a bracketed segment and a request, and parsed.
\* ------------------------------------------------------------------------

\* context.inputs.triggerPhrase
TRIGGER_PHRASE == <<"@","l","e","t","t","a">>

\* The tokens written between the brackets: text is what is written, value
\* what the token stands for once its quotes are removed.
BracketTokens ==
    { [text |-> t, value |-> t] :
        t \in { <<"-","p">>, <<"-","-","y","o","l","o">>, <<"-","-","o","u","t","p","u","t","-",
                                        "f","o","r","m","a","t">>, <<"-","-","m","o",
                                                              "d","e","l">>,
                <<"h","a","i","k","u">>, <<"-","-","n","e","w">> } }
    \cup { [text |-> <<"'","a"," ","b","'">>, value |-> <<"a"," ","b">>],
           [text |-> <<"'","a"," ","-","p","'">>, value |-> <<"a"," ","-","p">>] }

\* The sequences of at most n elements of S.
SeqsUpTo(S, n) == UNION {[1..k -> S] : k \in 0..n}

\* The comments: with or without the trigger phrase (in either case of the
\* letters), with a bracketed segment that is closed, left open or absent.
TriggerParts ==
    [phrase : {<< >>, TRIGGER_PHRASE, <<"@","L","e","t","t","a">>},
     gap : {<< >>, <<" ">>},
     bracket : {"none", "closed", "open"},
     tokens : SeqsUpTo(BracketTokens, MaxTokens),
     rest : {<< >>, <<" ","f","i","x"," ","t","h","i","s","\n">>}]

\* The text of the comment put together from parts.
TextOf(parts) ==
    <<"H","i"," ">> \o parts.phrase \o parts.gap
        \o (IF parts.bracket = "none" THEN << >>
            ELSE <<"[">>
                   \o join([i \in 1..Len(parts.tokens) |-> parts.tokens[i].text],
                           <<" ">>)
                   \o (IF parts.bracket = "closed" THEN <<"]">> ELSE << >>))
        \o parts.rest

TriggerInit ==
    /\ now = 0
    /\ CodecIdle
    /\ BuilderIdle
    /\ CleanupIdle
    /\ RelayIdle
    /\ SupervisorIdle
    /\ OutputIdle
    /\ ServedIdle
    /\ StreamIdle
    /\ UpdateIdle
    /\ ExitIdle
    /\ RenderIdle
    /\ LinkedIdle
    /\ GitHubIdle
    /\ ResolverIdle
    /\ PrepareIdle
    /\ RunIdle("idle")
    /\ \E parts \in TriggerParts :
          /\ parts.bracket = "none" => parts.tokens = << >>
          /\ triggerParts = Some(parts)
          /\ triggerText = TextOf(parts)
    /\ trigger = None

\* parseTriggerFromContext: parseTrigger on the text of the comment.
ParseTrigger ==
    /\ trigger = None
    /\ trigger' = Some(parseTrigger(TRIGGER_PHRASE, triggerText))
    /\ UNCHANGED <<cleanupVars, relayVars, supervisorVars, outputVars, servedVars, streamVars, updateVars, exitVars, renderVars, linkedVars, now, triggerParts, triggerText, codecVars, builderVars,
                   githubVars, resolverVars, prepareVars, runVars>>

\* process.env.LETTA_ARGS of the prepare step
EnvLettaArgs == { << >>, <<"-","-","n","e","w">> }

\* tagMode.prepare: core.setOutput("letta_args", allArgs.join(" "))
SetLettaArgs(envLettaArgs) ==
    /\ IsSome(trigger)
    /\ lettaArgsOutput = None
    /\ lettaArgsOutput' = Some(lettaArgsJoined(trigger[1], envLettaArgs))
    /\ UNCHANGED <<cleanupVars, relayVars, supervisorVars, servedVars, streamVars, updateVars, exitVars, renderVars,
                   linkedVars, triggerVars, now, codecVars, builderVars,
                   githubVars, resolverVars, prepareVars, runVars>>

\* The options the run step hands to runLetta when its letta_args input is
\* the letta_args output of the prepare step and no model or agent is set.
RunStepOptions ==
    [lettaArgs |-> lettaArgsOutput, model |-> None, agentId |-> None,
     conversationId |-> None, createNewConversation |-> FALSE]

\* run(): runLetta builds the arguments of the agent process.
RunLetta ==
    /\ IsSome(lettaArgsOutput)
    /\ runOptions = None
    /\ runOptions' = Some(RunStepOptions)
    /\ lettaArgs' = prepareRunConfig(RunStepOptions)
    /\ UNCHANGED <<cleanupVars, relayVars, supervisorVars, outputVars, servedVars, streamVars, updateVars, exitVars,
                   renderVars, linkedVars, triggerVars, now, codecVars,
                   githubVars, resolverVars, prepareVars, runVars>>

TriggerNext ==
    \/ ParseTrigger
    \/ \E envLettaArgs \in EnvLettaArgs : SetLettaArgs(envLettaArgs)
    \/ RunLetta

SpecTrigger == TriggerInit /\ [][TriggerNext]_vars

\* ------------------------------------------------------------------------
\* Claims about the trigger parser
\* ------------------------------------------------------------------------

\* The text has the trigger phrase and a closed bracketed segment after it,
\* and has been parsed.
ClosedBracketParsed ==
    /\ IsSome(trigger)
    /\ triggerParts[1].phrase # << >>
    /\ triggerParts[1].bracket = "closed"

\* The tokens between the brackets, as written in the comment.
TokensWritten ==
    [i \in 1..Len(triggerParts[1].tokens) |-> triggerParts[1].tokens[i].value]

\* The blocked flags a scan of the tokens from left to right removes: a
\* blocked flag that takes a value takes the token after it with it.
RECURSIVE FlagsRemoved(_)
FlagsRemoved(ts) ==
    IF ts = << >> THEN << >>
    ELSE IF Head(ts) \notin BLOCKED_FLAGS THEN FlagsRemoved(Tail(ts))
    ELSE IF Head(ts) \in FLAGS_WITH_VALUES /\ Len(ts) >= 2
    THEN <<Head(ts)>> \o FlagsRemoved(Tail(Tail(ts)))
    ELSE <<Head(ts)>> \o FlagsRemoved(Tail(ts))

\* The tokens such a scan keeps.
RECURSIVE TokensKept(_)
TokensKept(ts) ==
    IF ts = << >> THEN << >>
    ELSE IF Head(ts) \notin BLOCKED_FLAGS THEN <<Head(ts)>> \o TokensKept(Tail(ts))
    ELSE IF Head(ts) \in FLAGS_WITH_VALUES /\ Len(ts) >= 2
    THEN TokensKept(Tail(Tail(ts)))
    ELSE TokensKept(Tail(ts))

\* The flags the warning of the result names.
FlagsNamed ==
    IF trigger[1].warnings = << >> THEN << >>
    ELSE LET names == split(sliceFrom(trigger[1].warnings[1],
                                      Len(<<"I","g","n","o","r","e","d"," ",
                                            "f","l","a","g","s",":"," ">>)), ",")
         IN  [i \in 1..Len(names) |-> trim(names[i])]

\* No blocked flag is among the lettaArgs returned, and there is a warning
\* exactly when a blocked flag is among the bracket tokens.
NoBlockedFlagPasses ==
    /\ IsSome(trigger)
          => \A i \in 1..Len(trigger[1].lettaArgs) :
                trigger[1].lettaArgs[i] \notin BLOCKED_FLAGS
    /\ ClosedBracketParsed
          => (trigger[1].warnings # << >>
                <=> \E i \in 1..Len(TokensWritten) :
                       TokensWritten[i] \in BLOCKED_FLAGS)
    /\ (IsSome(trigger) /\ ~ClosedBracketParsed) => trigger[1].warnings = << >>

\* C13 as stated: no element of parseTrigger's lettaArgs is a blocked flag;
\* warnings is non-empty exactly when a blocked flag occurs among the bracket
\* tokens, and every blocked flag among the bracket tokens is named in the
\* warning.
C13_BlockedFlagsRemovedAndNamed ==
    /\ NoBlockedFlagPasses
    /\ ClosedBracketParsed
          => \A i \in 1..Len(TokensWritten) :
                TokensWritten[i] \in BLOCKED_FLAGS
                   => Contains(FlagsNamed, TokensWritten[i])

\* C13 as amended: the same, except that the warning names the blocked flags
\* that the scan from left to right removes as flags, in their order; a
\* blocked flag written as the value of a blocked flag that takes a value is
\* removed with that flag and not named.
C13_BlockedFlagsRemovedScannedNamed ==
    /\ NoBlockedFlagPasses
    /\ ClosedBracketParsed => FlagsNamed = FlagsRemoved(TokensWritten)

\* A text whose brackets hold --yolo and another token has been parsed, and
\* the warning names --yolo.
C13_Witness ==
    /\ ClosedBracketParsed
    /\ Len(TokensWritten) = 2
    /\ Contains(TokensWritten, <<"-","-","y","o","l","o">>)
    /\ FlagsNamed = <<<<"-","-","y","o","l","o">>>>

\* C14: parseTrigger's lettaArgs are the bracket tokens without the blocked
\* flags and without the value token of a blocked flag that takes a value;
\* every other token is kept, in order and with duplicates; empty brackets
\* give no arguments; prompt is the trimmed text after the closing bracket.
C14_ArgsKeptInOrder ==
    ClosedBracketParsed
    => /\ trigger[1].lettaArgs = TokensKept(TokensWritten)
       /\ trigger[1].prompt = trim(triggerParts[1].rest)
       /\ trigger[1].parseError = None

\* A text whose brackets hold a blocked flag with its value and then a token
\* that is kept has been parsed.
C14_Witness ==
    /\ ClosedBracketParsed
    /\ \E v \in {t.value : t \in BracketTokens} :
          /\ TokensWritten = <<<<"-","-","o","u","t","p","u","t","-","f","o",
                                 "r","m","a","t">>, v>>
          /\ trigger[1].lettaArgs = << >>
          /\ trigger[1].prompt = <<"f","i","x"," ","t","h","i","s">>

\* The text after the trigger phrase.
PostTriggerText ==
    LET parts == triggerParts[1]
    IN  sliceFrom(TextOf(parts), Len(<<"H","i"," ">>) + Len(parts.phrase))

\* C15: when a "[" directly follows the trigger phrase (after optional white
\* space) and no "]" follows it, whatever follows the "[", parseTrigger sets
\* parseError, returns no lettaArgs, and returns the whole text after the
\* trigger phrase (trimmed) as the prompt.
C15_UnclosedBracketFails ==
    (IsSome(trigger) /\ triggerParts[1].phrase # << >>
        /\ triggerParts[1].bracket = "open")
    => /\ trigger[1].parseError # None
       /\ trigger[1].lettaArgs = << >>
       /\ trigger[1].prompt = trim(PostTriggerText)

\* ------------------------------------------------------------------------
\* Specification of extractLinkedIssues: a body is put together from
\* references to issues, or is null, and the function is applied to it.
\* ------------------------------------------------------------------------

\* The ways an issue is referenced: lead is the text before the "#", closing
\* says whether the lead ends with a closing keyword.
ReferenceLeads ==
    { [lead |-> <<"F","i","x","e","s"," ">>, closing |-> TRUE],
      [lead |-> <<"c","l","o","s","e","d",":"," ">>, closing |-> TRUE],
      [lead |-> <<"R","E","S","O","L","V","E">>, closing |-> TRUE],
      [lead |-> <<"p","r","e","f","i","x"," ">>, closing |-> FALSE],
      [lead |-> <<"s","e","e"," ">>, closing |-> FALSE],
      [lead |-> << >>, closing |-> FALSE] }

\* The issue numbers referenced.
ReferenceNumbers == {7, 12, 42}

References ==
    [lead : {l.lead : l \in ReferenceLeads}, closing : BOOLEAN,
     number : ReferenceNumbers]

\* The text of a body with the references refs, one sentence each.
RECURSIVE BodyOf(_)
BodyOf(refs) ==
    IF refs = << >> THEN <<"S","o","m","e"," ","c","h","a","n","g","e","s",".">>
    ELSE BodyOf(SubSeq(refs, 1, Len(refs) - 1))
            \o <<" ">> \o refs[Len(refs)].lead \o <<"#">>
            \o toString(refs[Len(refs)].number) \o <<".">>

LinkedInit ==
    /\ now = 0
    /\ CodecIdle
    /\ BuilderIdle
    /\ CleanupIdle
    /\ RelayIdle
    /\ SupervisorIdle
    /\ OutputIdle
    /\ ServedIdle
    /\ StreamIdle
    /\ UpdateIdle
    /\ ExitIdle
    /\ RenderIdle
    /\ TriggerIdle
    /\ GitHubIdle
    /\ ResolverIdle
    /\ PrepareIdle
    /\ RunIdle("idle")
    /\ \E refs \in SeqsUpTo(References, MaxReferences) :
          /\ \A i \in 1..Len(refs) :
                [lead |-> refs[i].lead, closing |-> refs[i].closing]
                    \in ReferenceLeads
          /\ bodyParts = refs
          /\ prBody \in {Some(BodyOf(refs))}
                           \cup (IF refs = << >> THEN {None, Some(<< >>)} ELSE {})
    /\ linkedIssues = None

\* extractLinkedIssues(options.prBody)
ExtractLinkedIssues ==
    /\ linkedIssues = None
    /\ linkedIssues' = Some(extractLinkedIssues(prBody))
    /\ UNCHANGED <<cleanupVars, relayVars, supervisorVars, outputVars, servedVars, streamVars, updateVars, exitVars, renderVars, now, bodyParts, prBody, triggerVars, codecVars, builderVars,
                   githubVars, resolverVars, prepareVars, runVars>>

LinkedNext == ExtractLinkedIssues

SpecLinked == LinkedInit /\ [][LinkedNext]_vars

\* ------------------------------------------------------------------------
\* Claims about extractLinkedIssues
\* ------------------------------------------------------------------------

\* The numbers the body references with a closing keyword, and all of them.
ClosingReferenced ==
    {bodyParts[i].number : i \in {j \in 1..Len(bodyParts) : bodyParts[j].closing}}

AllReferenced == {bodyParts[i].number : i \in 1..Len(bodyParts)}

MaxMarkers == 2

\* The identity footer updateCommentWithAgentInfo puts under the placeholder
\* when the run starts.
ProvisionalFooter ==
    sliceFrom(runningBody(<<"a","g","-","1">>, <<"a","g","-","1">>, None, JOB_LINK),
              Len(WORKING_LINE))

RECURSIVE Markers(_)
Markers(n) == IF n = 0 THEN << >> ELSE <<"\n","\n">> \o OldMarker \o Markers(n - 1)

\* The bodies the tracking comment is rendered from: the placeholder or not,
\* content of the agent or not, the provisional footer or not, and markers.
RenderParts ==
    [placeholder : BOOLEAN, content : BOOLEAN, footer : BOOLEAN,
     markers : 0..MaxMarkers]

RenderBody(parts) ==
    trim((IF parts.placeholder THEN WORKING_LINE ELSE << >>)
         \o (IF parts.content THEN <<"\n","\n">> \o AGENT_CONTENT ELSE << >>)
         \o (IF parts.footer THEN ProvisionalFooter ELSE << >>)
         \o Markers(parts.markers))

RenderInit ==
    /\ now = 0
    /\ CodecIdle
    /\ BuilderIdle
    /\ CleanupIdle
    /\ RelayIdle
    /\ SupervisorIdle
    /\ OutputIdle
    /\ ServedIdle
    /\ StreamIdle
    /\ UpdateIdle
    /\ ExitIdle
    /\ TriggerIdle
    /\ LinkedIdle
    /\ GitHubIdle
    /\ ResolverIdle
    /\ PrepareIdle
    /\ RunIdle("idle")
    /\ \E parts \in RenderParts, failed \in BOOLEAN,
          agent \in {None, Some(<<"a","g","-","1">>)},
          conv \in {None, Some(<<"c","v","-","1">>)} :
          /\ IsSome(conv) => IsSome(agent)
          /\ renderParts = Some(parts)
          /\ renderInput = Some([currentBody |-> RenderBody(parts),
                                 actionFailed |-> failed,
                                 jobUrl |-> JOB_LINK,
                                 triggerUsername |-> Some(TRIGGER_USERNAME),
                                 agentId |-> agent,
                                 conversationId |-> conv,
                                 model |-> None])
    /\ rendered = None

\* updateCommentBody(input)
UpdateCommentBody ==
    /\ rendered = None
    /\ rendered' = Some(updateCommentBody(renderInput[1], now))
    /\ UNCHANGED <<cleanupVars, relayVars, supervisorVars, outputVars, servedVars, streamVars, updateVars, exitVars, now, renderParts, renderInput, linkedVars, triggerVars,
                   codecVars, builderVars, githubVars, resolverVars,
                   prepareVars, runVars>>

RenderNext == UpdateCommentBody

SpecRender == RenderInit /\ [][RenderNext]_vars

\* ------------------------------------------------------------------------
\* Claims about the terminal rendering
\* ------------------------------------------------------------------------

\* The number of places of s where pat starts.
CountOf(s, pat) == Cardinality({i \in 0..(Len(s) - 1) : MatchAt(s, pat, i)})

HEADLINE_FINISHED == <<"*","*","L","e","t","t","a"," ","C","o","d","e"," ",
                       "f","i","n","i","s","h","e","d"," ","@">>

HEADLINE_ERROR == <<"*","*","L","e","t","t","a"," ","C","o","d","e"," ","e",
                    "n","c","o","u","n","t","e","r","e","d"," ","a","n"," ",
                    "e","r","r","o","r","*","*">>

\* The body ends with the metadata marker that starts at its first
\* "<!-- letta-metadata".
MarkerAtEnd(s) ==
    /\ hasMetadata(s)
    /\ indexOfFrom(s, METADATA_END, indexOf(s, METADATA_START))
          + Len(METADATA_END) = Len(s)

\* C17: updateCommentBody with a known agentId returns, for every current
\* body (with or without the placeholder, content of the agent, a provisional
\* identity footer, one or more metadata markers), a body with exactly one
\* metadata marker, which ends the body, exactly one identity footer, exactly
\* one header, and the content of the agent exactly once.
C17_OneMarkerFooterHeader ==
    (IsSome(rendered) /\ Truthy(renderInput[1].agentId)) =>
        /\ CountOf(rendered[1], METADATA_START) = 1
        /\ MarkerAtEnd(rendered[1])
        /\ CountOf(rendered[1], AGENT_LABEL) = 1
        /\ CountOf(rendered[1], HEADLINE_FINISHED)
              + CountOf(rendered[1], HEADLINE_ERROR) = 1
        /\ renderParts[1].content => CountOf(rendered[1], AGENT_CONTENT) = 1

\* The agent wrote nothing into the comment: the body is the placeholder of
\* the Pending state, or the placeholder with the provisional identity footer
\* under it (the Running state).
PendingBodyRendered ==
    /\ IsSome(rendered)
    /\ renderParts[1] = [placeholder |-> TRUE, content |-> FALSE,
                         footer |-> FALSE, markers |-> 0]

RunningBodyRendered ==
    /\ IsSome(rendered)
    /\ renderParts[1] = [placeholder |-> TRUE, content |-> FALSE,
                         footer |-> TRUE, markers |-> 0]

\* C18: when the agent wrote no content of its own, the body updateCommentBody
\* returns for the Pending placeholder and for the Running-state body holds
\* the default sentence ("The agent encountered an issue before updating the
\* comment." on failure, "Task completed." on success), and on failure its
\* header is the error headline.
C18_DefaultSentence ==
    (PendingBodyRendered \/ RunningBodyRendered) =>
        /\ includes(rendered[1], defaultContent(renderInput[1].actionFailed))
        /\ renderInput[1].actionFailed =>
              indexOf(rendered[1], HEADLINE_ERROR) = 0

\* ------------------------------------------------------------------------
\* Claims about the conclusion of a run
\* ------------------------------------------------------------------------

\* runLetta has set its outputs.
Concluded == pc \in {"finished", "terminal"} /\ IsSome(runOutputs) /\ IsSome(ending)

\* The agent process ended with exit code 0.
EndedWithCodeZero == ending[1].event = "close" /\ ending[1].code = Some(0)

\* C19: runLetta sets the conclusion "success" if and only if the agent
\* process ended with exit code 0; for every other ending (another exit code,
\* a process ended by a signal, an error event) it sets the conclusion
\* "failure" and ends the run with a non-zero status.
C19_SuccessIffCodeZero ==
    Concluded =>
        /\ runOutputs[1].conclusion = "success" <=> EndedWithCodeZero
        /\ ~EndedWithCodeZero =>
              /\ runOutputs[1].conclusion = "failure"
              /\ IsSome(exitStatus)
              /\ exitStatus[1] # 0

\* ------------------------------------------------------------------------
\* updateLettaComment
\* ------------------------------------------------------------------------

MaxCommentId == 3

\* The bodies a comment is updated with.
UpdateBodies == {<<"a">>, <<"b">>}

\* What the GitHub API answers to an update: the updated comment, or an error
\* with a status, or an error without one (a network failure).
ApiAnswers(comment_id) ==
    {[ok |-> TRUE, status |-> Some(200), data |-> [id |-> comment_id]]}
        \cup {[ok |-> FALSE, status |-> st, data |-> [id |-> 0]] :
                 st \in {Some(404), Some(403), Some(500), None}}

\* A call of the octokit client, not yet answered.
apiCall(api, p) ==
    [api |-> api, comment_id |-> p.commentId, body |-> p.body, answer |-> None]

\* isPullRequestReviewComment && error.status === 404
fallsBack_AnyError(isPullRequestReviewComment, error) == isPullRequestReviewComment

fallsBack(isPullRequestReviewComment, error) ==
    isPullRequestReviewComment /\ error.status = Some(404)

UpdateInit ==
    /\ now = 0
    /\ CodecIdle
    /\ BuilderIdle
    /\ CleanupIdle
    /\ RelayIdle
    /\ SupervisorIdle
    /\ OutputIdle
    /\ ServedIdle
    /\ StreamIdle
    /\ ExitIdle
    /\ RenderIdle
    /\ TriggerIdle
    /\ LinkedIdle
    /\ GitHubIdle
    /\ ResolverIdle
    /\ PrepareIdle
    /\ RunIdle("idle")
    /\ params \in {Some([commentId |-> id, body |-> b,
                         isPullRequestReviewComment |-> rc]) :
                      id \in 1..MaxCommentId, b \in UpdateBodies, rc \in BOOLEAN}
    /\ apiCalls = << >>
    /\ updatePc = "idle"
    /\ updateResult = None

\* updateLettaComment up to the await of its first call.
UpdateLettaComment ==
    /\ updatePc = "idle"
    /\ apiCalls' = <<apiCall(IF params[1].isPullRequestReviewComment
                             THEN "pulls.updateReviewComment"
                             ELSE "issues.updateComment", params[1])>>
    /\ updatePc' = "try"
    /\ UNCHANGED <<cleanupVars, relayVars, supervisorVars, outputVars, servedVars, streamVars, params, updateResult, now, exitVars, renderVars, linkedVars,
                   triggerVars, codecVars, builderVars, githubVars,
                   resolverVars, prepareVars, runVars>>

\* The first call is answered: the result is returned, or the catch block
\* makes the fallback call, or it throws the error again.
FirstAnswer(answer) ==
    /\ updatePc = "try"
    /\ IF answer.ok
       THEN /\ apiCalls' = [apiCalls EXCEPT ![1].answer = Some(answer)]
            /\ updateResult' = Some([kind |-> "returned", id |-> answer.data.id,
                                     status |-> None])
            /\ updatePc' = "done"
       ELSE IF fallsBack(params[1].isPullRequestReviewComment, answer)
       THEN /\ apiCalls' = Append([apiCalls EXCEPT ![1].answer = Some(answer)],
                                  apiCall("issues.updateComment", params[1]))
            /\ updateResult' = None
            /\ updatePc' = "catch"
       ELSE /\ apiCalls' = [apiCalls EXCEPT ![1].answer = Some(answer)]
            /\ updateResult' = Some([kind |-> "thrown", id |-> 0,
                                     status |-> answer.status])
            /\ updatePc' = "done"
    /\ UNCHANGED <<cleanupVars, relayVars, supervisorVars, outputVars, servedVars, streamVars, params, now, exitVars, renderVars, linkedVars, triggerVars,
                   codecVars, builderVars, githubVars, resolverVars,
                   prepareVars, runVars>>

\* The fallback call is answered: its result is returned or its error leaves
\* the function.
FallbackAnswer(answer) ==
    /\ updatePc = "catch"
    /\ apiCalls' = [apiCalls EXCEPT ![2].answer = Some(answer)]
    /\ updateResult' =
          IF answer.ok
          THEN Some([kind |-> "returned", id |-> answer.data.id, status |-> None])
          ELSE Some([kind |-> "thrown", id |-> 0, status |-> answer.status])
    /\ updatePc' = "done"
    /\ UNCHANGED <<cleanupVars, relayVars, supervisorVars, outputVars, servedVars, streamVars, params, now, exitVars, renderVars, linkedVars, triggerVars,
                   codecVars, builderVars, githubVars, resolverVars,
                   prepareVars, runVars>>

UpdateNext ==
    \/ UpdateLettaComment
    \/ \E answer \in ApiAnswers(params[1].commentId) : FirstAnswer(answer)
    \/ \E answer \in ApiAnswers(params[1].commentId) : FallbackAnswer(answer)

SpecUpdate == UpdateInit /\ [][UpdateNext]_vars

\* ------------------------------------------------------------------------
\* Claims about updateLettaComment
\* ------------------------------------------------------------------------

\* What the caller of updateLettaComment gets for the answer of a call.
OutcomeOf(answer) ==
    IF answer.ok
    THEN [kind |-> "returned", id |-> answer.data.id, status |-> None]
    ELSE [kind |-> "thrown", id |-> 0, status |-> answer.status]

\* The update through the review-comment path failed with status 404.
ReviewPathNotFound ==
    /\ params[1].isPullRequestReviewComment
    /\ apiCalls[1].api = "pulls.updateReviewComment"
    /\ ~apiCalls[1].answer[1].ok
    /\ apiCalls[1].answer[1].status = Some(404)

\* C20: when isPullRequestReviewComment is true and the review-comment update
\* fails with status 404, updateLettaComment makes exactly one more call, the
\* issue-comment update with the same comment id and body, and the caller
\* gets that call's result or error; after any other failure (another error
\* of the review-comment update, any error of the issue-comment update) the
\* error reaches the caller and no further call is made.
C20_FallbackOnlyOnNotFound ==
    updatePc = "done" =>
        IF ReviewPathNotFound
        THEN /\ Len(apiCalls) = 2
             /\ apiCalls[2].api = "issues.updateComment"
             /\ apiCalls[2].comment_id = params[1].commentId
             /\ apiCalls[2].body = params[1].body
             /\ updateResult = Some(OutcomeOf(apiCalls[2].answer[1]))
        ELSE /\ Len(apiCalls) = 1
             /\ apiCalls[1].api = IF params[1].isPullRequestReviewComment
                                  THEN "pulls.updateReviewComment"
                                  ELSE "issues.updateComment"
             /\ updateResult = Some(OutcomeOf(apiCalls[1].answer[1]))

\* The fallback was taken and its call failed as well, with another status.
C20_Witness ==
    /\ updatePc = "done"
    /\ ReviewPathNotFound
    /\ Len(apiCalls) = 2
    /\ apiCalls[2].answer[1].status = Some(500)
    /\ updateResult[1].kind = "thrown"

\* ------------------------------------------------------------------------
\* Claims about the pairing of agent and conversation
\* ------------------------------------------------------------------------

MaxLines == 2

\* The lines the agent process may write: init events with and without ids,
\* an event of another type that names an agent, a result event, and a line
\* that is not JSON.
INIT_LINE ==
    <<"{","\"","t","y","p","e","\"",":","\"","s","y","s","t","e","m","\"",",",
      "\"","s","u","b","t","y","p","e","\"",":","\"","i","n","i","t","\"",",",
      "\"","a","g","e","n","t","_","i","d","\"",":","\"","a","g","-","1","\"",
      ",","\"","c","o","n","v","e","r","s","a","t","i","o","n","_","i","d",
      "\"",":","\"","c","v","-","1","\"",",","\"","m","o","d","e","l","\"",
      ":","\"","o","p","u","s","\"","}">>

INIT_AGENT_ONLY_LINE ==
    <<"{","\"","t","y","p","e","\"",":","\"","s","y","s","t","e","m","\"",",",
      "\"","s","u","b","t","y","p","e","\"",":","\"","i","n","i","t","\"",",",
      "\"","a","g","e","n","t","_","i","d","\"",":","\"","a","g","-","2","\"",
      "}">>

INIT_ANONYMOUS_LINE == <<"{","\"","t","y","p","e","\"",":","\"","s","y","s",
                         "t","e","m","\"",",","\"","s","u","b","t","y","p",
                         "e","\"",":","\"","i","n","i","t","\"","}">>

MESSAGE_LINE == <<"{","\"","t","y","p","e","\"",":","\"","m","e","s","s","a",
                  "g","e","\"",",","\"","a","g","e","n","t","_","i","d","\"",
                  ":","\"","a","g","-","1","\"","}">>

RESULT_LINE == <<"{","\"","t","y","p","e","\"",":","\"","r","e","s","u","l",
                 "t","\"",",","\"","s","u","b","t","y","p","e","\"",":","\"",
                 "s","u","c","c","e","s","s","\"","}">>

PLAIN_LINE == <<"S","t","a","r","t","i","n","g"," ","a","g","e","n","t">>

StreamLines ==
    {INIT_LINE, INIT_AGENT_ONLY_LINE, INIT_ANONYMOUS_LINE, MESSAGE_LINE,
     RESULT_LINE, PLAIN_LINE}

\* A JSON string: quotes around characters that are not quotes.
IsJsonString(x) ==
    /\ Len(x) >= 2
    /\ x[1] = "\""
    /\ x[Len(x)] = "\""
    /\ \A i \in 2..(Len(x) - 1) : x[i] # "\""

\* A member "key":"value" of a JSON object.
IsJsonMember(pair) ==
    LET kv == split(pair, ":")
    IN  Len(kv) = 2 /\ IsJsonString(trim(kv[1])) /\ IsJsonString(trim(kv[2]))

\* The members of the text of a JSON object without nesting, whose values are
\* strings without commas and colons; None for any other text, for which
\* JSON.parse throws or returns a value without properties.
jsonMembers(text) ==
    LET t == trim(text)
        inner == trim(slice(t, 1, Len(t) - 1))
        pairs == IF inner = << >> THEN << >> ELSE split(inner, ",")
    IN  IF Len(t) >= 2 /\ t[1] = "{" /\ t[Len(t)] = "}"
           /\ \A i \in 1..Len(pairs) : IsJsonMember(pairs[i])
        THEN Some(pairs)
        ELSE None

\* parsed[key] for the members of a parsed object: the value of the last
\* member with that key, None (undefined) without one.
property(members, key) ==
    LET quoted == <<"\"">> \o key \o <<"\"">>
        at == {i \in 1..Len(members) : trim(split(members[i], ":")[1]) = quoted}
        v == trim(split(members[CHOOSE i \in at : \A j \in at : j <= i], ":")[2])
    IN  IF at = {} THEN None ELSE Some(slice(v, 1, Len(v) - 1))

\* JSON.parse(line), optional: the properties the handler reads.
jsonParse(line) ==
    LET members == jsonMembers(line)
    IN  IF members = None THEN None
        ELSE Some([type |-> property(members[1], <<"t","y","p","e">>),
                   subtype |-> property(members[1], <<"s","u","b","t","y","p","e">>),
                   agent_id |-> property(members[1], <<"a","g","e","n","t","_","i","d">>),
                   conversation_id |->
                       property(members[1], <<"c","o","n","v","e","r","s","a","t",
                                              "i","o","n","_","i","d">>),
                   model |-> property(members[1], <<"m","o","d","e","l">>)])

\* The body of lines.forEach for one line, on the state st of the handler:
\* what it has captured and the Running-state updates it has started.
handleLine(st, line) ==
    IF trim(line) = << >> THEN st
    ELSE With(jsonParse(line), LAMBDA p :
        IF p = None THEN st
        ELSE [captured |->
                 [agentId |-> IF Truthy(p[1].agent_id) THEN p[1].agent_id
                              ELSE st.captured.agentId,
                  conversationId |-> IF Truthy(p[1].conversation_id)
                                     THEN p[1].conversation_id
                                     ELSE st.captured.conversationId,
                  modelHandle |-> IF Truthy(p[1].model) THEN p[1].model
                                  ELSE st.captured.modelHandle],
              updates |->
                 IF /\ p[1].type = Some(<<"s","y","s","t","e","m">>)
                    /\ p[1].subtype = Some(<<"i","n","i","t">>)
                    /\ Truthy(p[1].agent_id)
                 THEN Append(st.updates,
                        [commentId |-> 0, agentId |-> p[1].agent_id[1],
                         conversationId |-> p[1].conversation_id,
                         agentDisplayName |-> p[1].agent_id[1],
                         stage |-> "getAgentInfo"])
                 ELSE st.updates])

RECURSIVE handleLines(_, _)
handleLines(st, lines) ==
    IF lines = << >> THEN st
    ELSE handleLines(With(st, LAMBDA s0 : handleLine(s0, Head(lines))), Tail(lines))

\* The handler of the data event of stdout for the chunk text.
onData(st, text) == handleLines(st, split(text, "\n"))

\* The text the process writes for its lines: each line ends with a newline.
RECURSIVE Written(_)
Written(lines) ==
    IF lines = << >> THEN << >> ELSE Head(lines) \o <<"\n">> \o Written(Tail(lines))

\* The places where a data event may end: in the middle of a line, before
\* its newline and after it.
RECURSIVE ChunkEnds(_, _)
ChunkEnds(lines, offset) ==
    IF lines = << >> THEN {}
    ELSE {offset + (Len(Head(lines)) \div 2), offset + Len(Head(lines)),
          offset + Len(Head(lines)) + 1}
            \cup ChunkEnds(Tail(lines), offset + Len(Head(lines)) + 1)

StreamInit ==
    /\ now = 0
    /\ CodecIdle
    /\ BuilderIdle
    /\ CleanupIdle
    /\ RelayIdle
    /\ SupervisorIdle
    /\ OutputIdle
    /\ ServedIdle
    /\ UpdateIdle
    /\ ExitIdle
    /\ RenderIdle
    /\ TriggerIdle
    /\ LinkedIdle
    /\ GitHubIdle
    /\ ResolverIdle
    /\ PrepareIdle
    /\ RunIdle("running")
    /\ stream \in SeqsUpTo(StreamLines, MaxLines)
    /\ pending = Written(stream)

\* A data event of stdout: the next part of the text, up to one of the
\* places a chunk may end, goes through the handler.
Data(end) ==
    /\ pc = "running"
    /\ pending # << >>
    /\ end \in ChunkEnds(stream, 0)
    /\ end > Len(Written(stream)) - Len(pending)
    /\ \E st \in {onData([captured |-> captured, updates |-> updates],
                         slice(pending, 0,
                               end - (Len(Written(stream)) - Len(pending))))} :
          /\ captured' = st.captured
          /\ updates' = st.updates
    /\ pending' = sliceFrom(pending, end - (Len(Written(stream)) - Len(pending)))
    /\ UNCHANGED <<cleanupVars, relayVars, supervisorVars, outputVars, servedVars, stream, now, updateVars, exitVars, renderVars, linkedVars,
                   triggerVars, codecVars, builderVars, githubVars,
                   resolverVars, prepareVars, pc, invocation, commentId,
                   nEvents, exitCode, runOutputs, previous>>

StreamNext == \E end \in 1..Len(Written(stream)) : Data(end)

SpecStream == StreamInit /\ [][StreamNext]_vars

\* ------------------------------------------------------------------------
\* Claims about the stdout handler
\* ------------------------------------------------------------------------

\* What the handler holds after all the lines written, taken line by line.
LineByLine ==
    handleLines([captured |-> NothingCaptured, updates |-> << >>], stream)

\* C22: when the whole stream has been delivered, the identity captured and
\* the Running-state updates started are those of the lines the process
\* wrote, however the text was cut into data events.
C22_ChunkingIrrelevant ==
    (pc = "running" /\ stream # << >> /\ pending = << >>) =>
        /\ captured = LineByLine.captured
        /\ updates = LineByLine.updates

\* The lines of the stream that are init events with an agent id.
InitLinesWithAgent == {INIT_LINE, INIT_AGENT_ONLY_LINE}

\* The number of lines of the stream whose text has been delivered in full,
\* with or without the newline that ends it.
LinesDelivered ==
    Cardinality({i \in 1..Len(stream) :
                    Len(Written(SubSeq(stream, 1, i))) - 1
                        <= Len(Written(stream)) - Len(pending)})

\* Every update started so far is the one of an init line with an agent id
\* among the lines delivered.
StartedByInitLines ==
    \A k \in 1..Len(updates) :
        \E i \in 1..LinesDelivered :
            /\ stream[i] \in InitLinesWithAgent
            /\ jsonParse(stream[i])[1].agent_id = Some(updates[k].agentId)

\* C23: in one run the Running-state update is started by the first init
\* event that carries an agent id and by no other event: at most one update
\* is started, each update started is the one of an init line with an agent
\* id, and while an update is under way the handler takes the next data event.
C23_FiresOnceOnFirstInit ==
    pc = "running" =>
        /\ Len(updates) <= 1
        /\ StartedByInitLines
        /\ (updates # << >> /\ pending # << >>) => ENABLED StreamNext

\* ------------------------------------------------------------------------
\* Claims about the writes to the tracking comment
\* ------------------------------------------------------------------------

\* The body of the tracking comment of the invocation under way.
TrackingBody == bodyOf(ghComments[context.entityNumber], commentId)

\* The body is one updateCommentBody has written: it starts with the header.
IsTerminalBody(b) ==
    indexOf(b, HEADLINE_FINISHED) = 0 \/ indexOf(b, HEADLINE_ERROR) = 0

\* C24: the Terminal rewrite is the last write of an invocation to its
\* tracking comment: from the Terminal rewrite on, the comment holds the
\* Terminal body, and no Running-state update of the invocation is applied.
C24_TerminalWriteIsLast ==
    pc = "terminal" => IsTerminalBody(TrackingBody)

\* C25: the Running-state update never overwrites content the agent has
\* written: within a run, a tracking comment that holds the content of the
\* agent still holds it after every step, the Running-state update included.
C25_AgentContentKept ==
    [][(pc = "running" /\ pc' = "running"
        /\ includes(bodyOf(ghComments[context.entityNumber], commentId),
                    AGENT_CONTENT))
       => includes(bodyOf(ghComments'[context.entityNumber], commentId),
                   AGENT_CONTENT)]_vars

\* ------------------------------------------------------------------------
\* Runs on several threads against one Letta API
\* ------------------------------------------------------------------------

MaxConcurrentRuns == 2

\* getLatestConversation(agentId): the id of the newest conversation of the
\* agent (limit=1, order=desc), or None when there is none or when the
\* request fails (ok is false).
getLatestConversation(served, agentId, ok) ==
    LET of == {i \in 1..Len(served) : served[i].agent = agentId}
    IN  IF ~ok \/ of = {} THEN None
        ELSE Some(served[CHOOSE i \in of : \A j \in of : j <= i].id)

\* The conversation_id output of runLetta for what the stream gave and the
\* answer latest of getLatestConversation, which is asked only when the
\* stream named an agent and no conversation.
conversationOutput(agentId, conversationId, latest) ==
    IF ~Truthy(conversationId) /\ Truthy(agentId) THEN latest ELSE conversationId

\* The id of the k-th conversation the API creates.
ConversationId(k) == <<"c","v","-">> \o toString(k)

ServedInit ==
    /\ now = 0
    /\ CodecIdle
    /\ BuilderIdle
    /\ CleanupIdle
    /\ RelayIdle
    /\ SupervisorIdle
    /\ OutputIdle
    /\ StreamIdle
    /\ UpdateIdle
    /\ ExitIdle
    /\ RenderIdle
    /\ TriggerIdle
    /\ LinkedIdle
    /\ GitHubIdle
    /\ ResolverIdle
    /\ PrepareIdle
    /\ RunIdle("idle")
    /\ conversations = << >>
    /\ runs \in [1..MaxConcurrentRuns ->
                    [pc : {"spawned"}, agent : AgentIds, used : {None},
                     agentId : {None}, conversationId : {None},
                     output : {None}]]

\* The agent process of run r starts a conversation on its agent and prints
\* its init event, with or without the agent id and the conversation id.
AgentStarts(r, namesAgent, namesConversation) ==
    /\ runs[r].pc = "spawned"
    /\ conversations' =
          Append(conversations,
                 [id |-> ConversationId(Len(conversations) + 1),
                  agent |-> runs[r].agent])
    /\ runs' = [runs EXCEPT ![r] =
                  [@ EXCEPT !.pc = "running",
                            !.used = Some(ConversationId(Len(conversations) + 1)),
                            !.agentId = IF namesAgent THEN Some(runs[r].agent)
                                        ELSE None,
                            !.conversationId =
                                IF namesConversation
                                THEN Some(ConversationId(Len(conversations) + 1))
                                ELSE None]]
    /\ UNCHANGED <<cleanupVars, relayVars, supervisorVars, outputVars, now, streamVars, updateVars, exitVars, renderVars,
                   linkedVars, triggerVars, codecVars, builderVars,
                   githubVars, resolverVars, prepareVars, runVars>>

\* The agent process of run r ends; runLetta sets its conversation_id output,
\* with the answer of getLatestConversation where it asks.
RunEnds(r, ok) ==
    /\ runs[r].pc = "running"
    /\ runs' = [runs EXCEPT ![r] =
                  [@ EXCEPT !.pc = "done",
                            !.output =
                                conversationOutput(
                                    runs[r].agentId, runs[r].conversationId,
                                    getLatestConversation(conversations,
                                                          runs[r].agent, ok))]]
    /\ UNCHANGED <<cleanupVars, relayVars, supervisorVars, outputVars, conversations, now, streamVars, updateVars, exitVars,
                   renderVars, linkedVars, triggerVars, codecVars, builderVars,
                   githubVars, resolverVars, prepareVars, runVars>>

ServedNext ==
    \/ \E r \in 1..MaxConcurrentRuns, namesAgent, namesConversation \in BOOLEAN :
          AgentStarts(r, namesAgent, namesConversation)
    \/ \E r \in 1..MaxConcurrentRuns, ok \in BOOLEAN : RunEnds(r, ok)

SpecServed == ServedInit /\ [][ServedNext]_vars

\* ------------------------------------------------------------------------
\* Claims about the conversation id a run puts out
\* ------------------------------------------------------------------------

\* C26: the conversation id runLetta puts out is the id of the conversation
\* the agent process of this run used, also when the stream carried no
\* conversation id and the id is the agent's latest conversation, and also
\* when another run uses the same agent on another thread at the same time.
C26_OutputIsOwnConversation ==
    \A r \in DOMAIN runs :
        (runs[r].pc = "done" /\ Truthy(runs[r].output))
            => runs[r].output = runs[r].used

\* ------------------------------------------------------------------------
\* Claims about the authors the resolver listens to
\* ------------------------------------------------------------------------

\* The author of the comment is a recognized bot identity: the numeric id of
\* the Letta app, or type "Bot" with a login that contains "letta", or the
\* login of the CI bot.
ByRecognizedBot(comment) ==
    /\ comment.user # None
    /\ \/ comment.user[1].id = LETTA_APP_BOT_ID
       \/ /\ comment.user[1].type = "Bot"
          /\ \E i \in 0..Len(comment.user[1].login) :
                toLowerCase(slice(comment.user[1].login, i, i + 5))
                    = <<"l","e","t","t","a">>
       \/ comment.user[1].login = GITHUB_ACTIONS_LOGIN

\* The answers of the lister without the comments of other authors.
BotCommentsOnly(answers) ==
    [n \in DOMAIN answers |->
        [ok |-> answers[n].ok,
         data |-> SelectSeq(answers[n].data, ByRecognizedBot)]]

\* The comments the lister returned, over all the issues listed.
CommentsListed ==
    UNION {{listResponses[n].data[i] : i \in 1..Len(listResponses[n].data)} :
              n \in DOMAIN listResponses}

ArgumentsBuilt == IsSome(trigger) /\ IsSome(lettaArgsOutput) /\ IsSome(runOptions)

\* The arguments of the agent process between the -p the builder emits and
\* BASE_ARGS: those that come from letta_args.
ArgumentsFromLettaArgs ==
    SubSeq(lettaArgs, 3, Len(lettaArgs) - Len(BASE_ARGS))

\* C28: every token parseTrigger emits in lettaArgs reaches the agent process
\* as exactly one argument: once prepare has joined the tokens into letta_args
\* and prepareRunConfig has parsed that string again, the arguments that come
\* from letta_args are the trigger's tokens in order (followed by those of
\* LETTA_ARGS), and none of them is a blocked flag.
C28_TokensReachProcessWhole ==
    ArgumentsBuilt
    => /\ \E envLettaArgs \in EnvLettaArgs :
             ArgumentsFromLettaArgs
                = trigger[1].lettaArgs
                     \o splitWhiteSpace(envLettaArgs, << >>, << >>)
       /\ \A i \in 1..Len(ArgumentsFromLettaArgs) :
             ArgumentsFromLettaArgs[i] \notin BLOCKED_FLAGS

\* ------------------------------------------------------------------------
\* Claims about the resolver when a listing fails
\* ------------------------------------------------------------------------

\* The listing of the comments of the event's thread failed in the latest
\* resolution.
OwnListingFailed ==
    /\ resolved
    /\ context.entityNumber \in DOMAIN listResponses
    /\ ~listResponses[context.entityNumber].ok

\* C29: if listing the comments of the current thread fails, findExistingAgent
\* returns no record and lists the comments of no linked issue, so that
\* prepare goes on as CreateNew, or as the configured agent with a new
\* conversation.
C29_OwnListingFailureIsNoRecord ==
    OwnListingFailed
    => /\ existingAgent = None
       /\ listCalls = <<context.entityNumber>>
       /\ \A configured \in ConfiguredAgentIds :
             IF Truthy(configured)
             THEN IsUseConfiguredAgentNewConversation(
                      prepare(configured, existingAgent))
             ELSE IsCreateNew(prepare(configured, existingAgent))

\* The listing of the comments of a pull request that names two linked issues
\* failed, issue 42 holding a record, and the resolution returned none.
C29_Witness ==
    /\ OwnListingFailed
    /\ context.isPR
    /\ Len(LinkedIssues) = 2
    /\ \E i \in 1..Len(ghComments[42]) : Discoverable(ghComments[42][i])
    /\ existingAgent = None

\* The linked issue at position k of LinkedIssues was listed in the latest
\* resolution.
ConsultedAt(k) == LinkedIssues[k] \in DOMAIN listResponses

\* The record of each linked issue, by position in LinkedIssues: what the
\* search of its comments yields when its listing succeeded in the latest
\* resolution, none when the listing failed or was not made.
LinkedRecords ==
    [k \in 1..Len(LinkedIssues) |->
        searchCommentsForAgent(listResponses, LinkedIssues[k]).value]

\* C30: a failure to list the comments of one linked issue does not end the
\* search of the linked issues: when the thread of a pull request yields no
\* record, the linked issues are listed in order up to the first whose
\* listing succeeds and holds a record, failed listings included, that
\* issue's record is returned, and no record is returned only when no linked
\* issue's listing succeeds and holds a record.
C30_FailedListingSkipped ==
    (/\ resolved
     /\ context.isPR
     /\ ListingOk(context.entityNumber)
     /\ searchCommentsForAgent(listResponses, context.entityNumber).value = None)
    => \E record \in {LinkedRecords} :
          /\ \A k \in 1..Len(LinkedIssues) :
                (\A j \in 1..(k - 1) : record[j] = None) => ConsultedAt(k)
          /\ IF \E k \in 1..Len(LinkedIssues) : IsSome(record[k])
             THEN \E k \in 1..Len(LinkedIssues) :
                     /\ IsSome(record[k])
                     /\ \A j \in 1..(k - 1) : record[j] = None
                     /\ existingAgent
                           = Some([record[k][1] EXCEPT
                                      !.linkedFromIssue = Some(LinkedIssues[k])])
             ELSE existingAgent = None

\* A pull request names issues 42 and 43 in that order; the listing of issue
\* 42 failed and the record of issue 43 was returned.
C30_Witness ==
    /\ resolved
    /\ context.isPR
    /\ ListingOk(context.entityNumber)
    /\ LinkedIssues = <<42, 43>>
    /\ ConsultedAt(1)
    /\ ~ListingOk(42)
    /\ IsSome(existingAgent)
    /\ existingAgent[1].linkedFromIssue = Some(43)

\* ------------------------------------------------------------------------
\* Specification of runLetta from the spawn of its subprocesses on: the
\* prompt reader (catProcess), the reader of the named pipe (pipeProcess) and
\* the agent process (lettaProcess) have been spawned and their handlers
\* registered; the main path waits for the agent process, cleans up and sets
\* the outputs, while the side calls started by the init event run unawaited.
\* ------------------------------------------------------------------------

MaxStdout == 2

\* The parsed lines of the agent's stdout: the init event, with or without
\* conversation, an event of another type, the result event.
SupervisorEvents ==
    {[type |-> "system", subtype |-> "init", agent_id |-> Some(<<"a","g","-","1">>),
      conversation_id |-> c, model |-> m] :
        c \in {None, Some(<<"c","v","-","1">>)},
        m \in {Some(<<"o","p","u","s">>)}}
    \cup {[type |-> "message", subtype |-> "assistant", agent_id |-> None,
           conversation_id |-> None, model |-> None],
          [type |-> "result", subtype |-> "success",
           agent_id |-> Some(<<"a","g","-","1">>), conversation_id |-> None,
           model |-> None]}

\* The stdout handler: agentId, conversationId and modelHandle after a parsed
\* line.
captureIdentity(id, parsed) ==
    [agentId |-> IF Truthy(parsed.agent_id) THEN parsed.agent_id ELSE id.agentId,
     conversationId |-> IF Truthy(parsed.conversation_id)
                        THEN parsed.conversation_id ELSE id.conversationId,
     modelHandle |-> IF Truthy(parsed.model) THEN parsed.model
                     ELSE id.modelHandle]

\* The stdout handler: whether the parsed line is the init event.
isInitEvent(parsed) ==
    parsed.type = "system" /\ parsed.subtype = "init" /\ Truthy(parsed.agent_id)

\* The stdout handler on an init event: updateCommentWithAgentInfo is called
\* and waits for getAgentInfo, updateConversationSummary is called when the
\* event names a conversation, writeFile of the agent-info file is called;
\* none of the promises is awaited.
startSideCalls(calls, parsed) ==
    [c \in SideCalls |->
        IF c = "getAgentInfo" \/ c = "writeAgentInfoFile" THEN "pending"
        ELSE IF c = "updateConversationSummary" /\ Truthy(parsed.conversation_id)
        THEN "pending"
        ELSE calls[c]]

\* A variant of the conclusion that a failed side call turns into a failure.
conclusion_SideCallEscalates(code) ==
    IF code = 0 /\ \A c \in SideCalls : sideCalls[c] # "failed"
    THEN "success" ELSE "failure"

\* The conclusion output for the exit code the promise resolved with.
conclusion(code) == IF code = 0 THEN "success" ELSE "failure"

\* A variant of the identity outputs that sets none.
identityOutput_Dropped(value) == None

\* if (value) core.setOutput(name, value): the output set, if any.
identityOutput(value) == IF Truthy(value) THEN value ELSE None

\* A variant of the wait for the agent process that holds until a result
\* event was read.
lettaFinished_AfterResult(process) ==
    /\ process.state = "exited"
    /\ ~process.stdoutOpen
    /\ \E i \in 1..Len(seen) : seen[i] = "result"

\* The close event of the agent process: the process has exited and its
\* stdio streams have closed.
lettaFinished(process) == process.state = "exited" /\ ~process.stdoutOpen

RunLettaOthers ==
    <<outputVars, servedVars, streamVars, updateVars, exitVars, renderVars,
      linkedVars, triggerVars, now, codecVars, builderVars, githubVars,
      resolverVars, prepareVars, runVars>>

SupervisorInit ==
    /\ now = 0
    /\ CodecIdle
    /\ BuilderIdle
    /\ CleanupIdle
    /\ RelayIdle
    /\ OutputIdle
    /\ ServedIdle
    /\ StreamIdle
    /\ UpdateIdle
    /\ ExitIdle
    /\ RenderIdle
    /\ LinkedIdle
    /\ TriggerIdle
    /\ GitHubIdle
    /\ ResolverIdle
    /\ PrepareIdle
    /\ RunIdle("running")
    /\ mainPath = "waiting"
    /\ lettaProcess = LettaRunning
    /\ subprocessErrors = {}
    /\ pipeStream = "open"
    /\ sideCalls = [c \in SideCalls |-> "unstarted"]
    /\ identity = NothingCaptured
    /\ awaitedExit = None
    /\ coreOutputs = NoCoreOutputs
    /\ seen = << >>

\* lettaProcess.stdout.on("data"): one parsed line.
StdoutData(parsed) ==
    /\ mainPath = "waiting"
    /\ lettaProcess.state # "failed"
    /\ lettaProcess.stdoutOpen
    /\ Len(seen) < MaxStdout
    /\ seen' = Append(seen, IF isInitEvent(parsed) THEN "init"
                            ELSE IF parsed.type = "result" THEN "result"
                            ELSE "other")
    /\ identity' = captureIdentity(identity, parsed)
    /\ sideCalls' = IF isInitEvent(parsed) THEN startSideCalls(sideCalls, parsed)
                    ELSE sideCalls
    /\ UNCHANGED <<cleanupVars, relayVars, mainPath, lettaProcess, subprocessErrors, pipeStream,
                   awaitedExit, coreOutputs>>
    /\ UNCHANGED RunLettaOthers

\* lettaProcess.stdout.on("data"): one line that JSON.parse rejects.
StdoutUnparseable ==
    /\ mainPath = "waiting"
    /\ lettaProcess.state # "failed"
    /\ lettaProcess.stdoutOpen
    /\ Len(seen) < MaxStdout
    /\ seen' = Append(seen, "unparseable")
    /\ UNCHANGED <<cleanupVars, relayVars, mainPath, lettaProcess, subprocessErrors, pipeStream,
                   sideCalls, identity, awaitedExit, coreOutputs>>
    /\ UNCHANGED RunLettaOthers

\* A side call settles: its promise fulfils or rejects, the rejection being
\* caught and logged where the call was made. The PATCH of the comment
\* starts when getAgentInfo has settled either way. process.exit ends the
\* calls that have not settled.
SideCallSettles(c, ok) ==
    /\ mainPath \notin {"idle", "exited"}
    /\ sideCalls[c] = "pending"
    /\ sideCalls' =
          [d \in SideCalls |->
              IF d = c THEN (IF ok THEN "succeeded" ELSE "failed")
              ELSE IF c = "getAgentInfo" /\ d = "patchComment" THEN "pending"
              ELSE sideCalls[d]]
    /\ UNCHANGED <<cleanupVars, relayVars, mainPath, lettaProcess, subprocessErrors, pipeStream,
                   identity, awaitedExit, coreOutputs, seen>>
    /\ UNCHANGED RunLettaOthers

\* catProcess.on("error"): the reader of the prompt file failed.
CatProcessError ==
    /\ mainPath = "waiting"
    /\ "catProcess" \notin subprocessErrors
    /\ subprocessErrors' = subprocessErrors \cup {"catProcess"}
    /\ pipeStream' = "destroyed"
    /\ UNCHANGED <<cleanupVars, relayVars, mainPath, lettaProcess, sideCalls, identity, awaitedExit,
                   coreOutputs, seen>>
    /\ UNCHANGED RunLettaOthers

\* lettaProcess.on("error"), both handlers: the agent process failed to
\* spawn.
LettaProcessError ==
    /\ mainPath = "waiting"
    /\ lettaProcess = LettaRunning
    /\ seen = << >>
    /\ subprocessErrors' = subprocessErrors \cup {"lettaProcess"}
    /\ pipeStream' = "destroyed"
    /\ lettaProcess' = [lettaProcess EXCEPT !.state = "failed",
                                            !.stdoutOpen = FALSE]
    /\ awaitedExit' = Some(resolvedCode([event |-> "error", code |-> None]))
    /\ mainPath' = "resolved"
    /\ UNCHANGED <<cleanupVars, relayVars, sideCalls, identity, coreOutputs, seen>>
    /\ UNCHANGED RunLettaOthers

\* pipeProcess.on("error"): the reader of the named pipe failed and the agent
\* process is sent SIGTERM.
PipeProcessError ==
    /\ mainPath = "waiting"
    /\ "pipeProcess" \notin subprocessErrors
    /\ subprocessErrors' = subprocessErrors \cup {"pipeProcess"}
    /\ lettaProcess' =
          IF lettaProcess.state = "running"
          THEN [lettaProcess EXCEPT !.signalled = TRUE]
          ELSE lettaProcess
    /\ UNCHANGED <<cleanupVars, relayVars, mainPath, pipeStream, sideCalls, identity, awaitedExit,
                   coreOutputs, seen>>
    /\ UNCHANGED RunLettaOthers

\* The agent process exits: with a code of its own, or, ended by the signal
\* it was sent, with the code null.
ProcessExit(code) ==
    /\ lettaProcess.state = "running"
    /\ code = None => lettaProcess.signalled
    /\ lettaProcess' = [lettaProcess EXCEPT !.state = "exited", !.code = code]
    /\ UNCHANGED <<cleanupVars, relayVars, mainPath, subprocessErrors, pipeStream, sideCalls, identity,
                   awaitedExit, coreOutputs, seen>>
    /\ UNCHANGED RunLettaOthers

\* The stdout of the agent process ends.
StdoutEnd ==
    /\ lettaProcess.state # "failed"
    /\ lettaProcess.stdoutOpen
    /\ lettaProcess' = [lettaProcess EXCEPT !.stdoutOpen = FALSE]
    /\ UNCHANGED <<cleanupVars, relayVars, mainPath, subprocessErrors, pipeStream, sideCalls, identity,
                   awaitedExit, coreOutputs, seen>>
    /\ UNCHANGED RunLettaOthers

\* lettaProcess.on("close"): resolve(code || 0).
OnClose ==
    /\ mainPath = "waiting"
    /\ lettaFinished(lettaProcess)
    /\ awaitedExit' =
          Some(resolvedCode([event |-> "close", code |-> lettaProcess.code]))
    /\ mainPath' = "resolved"
    /\ UNCHANGED <<cleanupVars, relayVars, lettaProcess, subprocessErrors, pipeStream, sideCalls,
                   identity, coreOutputs, seen>>
    /\ UNCHANGED RunLettaOthers

\* The main path after the wait: catProcess and pipeProcess are sent SIGTERM
\* and the named pipe is unlinked.
CleanUp ==
    /\ mainPath = "resolved"
    /\ mainPath' = "cleaned"
    /\ UNCHANGED <<cleanupVars, relayVars, lettaProcess, subprocessErrors, pipeStream, sideCalls,
                   identity, awaitedExit, coreOutputs, seen>>
    /\ UNCHANGED RunLettaOthers

\* core.setOutput("conclusion", ...), on the success path after the attempt
\* to save the execution file.
Conclude ==
    /\ mainPath = "cleaned"
    /\ coreOutputs' =
          [coreOutputs EXCEPT !.conclusion = Some(conclusion(awaitedExit[1]))]
    /\ mainPath' = "concluded"
    /\ UNCHANGED <<cleanupVars, relayVars, lettaProcess, subprocessErrors, pipeStream, sideCalls,
                   identity, awaitedExit, seen>>
    /\ UNCHANGED RunLettaOthers

\* if (agentId) core.setOutput("agent_id", agentId); the main path then asks
\* getLatestConversation when the stream named an agent and no conversation.
OutputAgentId ==
    /\ mainPath = "concluded"
    /\ coreOutputs' =
          [coreOutputs EXCEPT !.agent_id = identityOutput(identity.agentId)]
    /\ mainPath' = IF ~Truthy(identity.conversationId) /\ Truthy(identity.agentId)
                   THEN "fetching" ELSE "fetched"
    /\ UNCHANGED <<cleanupVars, relayVars, lettaProcess, subprocessErrors, pipeStream, sideCalls,
                   identity, awaitedExit, seen>>
    /\ UNCHANGED RunLettaOthers

\* conversationId = await getLatestConversation(agentId): the id of a
\* conversation, or null when the call fails or finds none.
GetLatestConversation(latest) ==
    /\ mainPath = "fetching"
    /\ identity' = [identity EXCEPT !.conversationId = latest]
    /\ mainPath' = "fetched"
    /\ UNCHANGED <<cleanupVars, relayVars, lettaProcess, subprocessErrors, pipeStream, sideCalls,
                   awaitedExit, coreOutputs, seen>>
    /\ UNCHANGED RunLettaOthers

\* The outputs conversation_id and model; on the failure path
\* process.exit(exitCode) follows, on the success path runLetta returns.
OutputConversationAndModel ==
    /\ mainPath = "fetched"
    /\ coreOutputs' =
          [coreOutputs EXCEPT
              !.conversation_id = identityOutput(identity.conversationId),
              !.model = identityOutput(identity.modelHandle)]
    /\ mainPath' = IF awaitedExit[1] = 0 THEN "returned" ELSE "exited"
    /\ UNCHANGED <<cleanupVars, relayVars, lettaProcess, subprocessErrors, pipeStream, sideCalls,
                   identity, awaitedExit, seen>>
    /\ UNCHANGED RunLettaOthers

SupervisorNext ==
    \/ \E parsed \in SupervisorEvents : StdoutData(parsed)
    \/ StdoutUnparseable
    \/ \E c \in SideCalls, ok \in BOOLEAN : SideCallSettles(c, ok)
    \/ CatProcessError
    \/ LettaProcessError
    \/ PipeProcessError
    \/ \E code \in {Some(0), Some(1), None} : ProcessExit(code)
    \/ StdoutEnd
    \/ OnClose
    \/ CleanUp
    \/ Conclude
    \/ OutputAgentId
    \/ \E latest \in {None, Some(<<"c","v","-","9">>)} : GetLatestConversation(latest)
    \/ OutputConversationAndModel

SpecSupervisor == SupervisorInit /\ [][SupervisorNext]_vars

\* The main path is scheduled whenever it can go on: the close event of an
\* agent process that has exited with its stdout closed is delivered, and
\* the steps after the wait are taken.
SpecSupervisorFair ==
    /\ SpecSupervisor
    /\ WF_vars(OnClose)
    /\ WF_vars(CleanUp)
    /\ WF_vars(Conclude)

\* ------------------------------------------------------------------------
\* Claims about the supervision of the agent process
\* ------------------------------------------------------------------------

\* runLetta has set its conclusion.
ConclusionSet == IsSome(coreOutputs.conclusion)

\* C31: whenever a subprocess error occurred during the run (the agent
\* process failed to spawn, the reader of the prompt file failed, or the
\* reader of the named pipe failed), the conclusion of the run is failure.
C31_SubprocessErrorFailsRun ==
    (ConclusionSet /\ subprocessErrors # {})
    => coreOutputs.conclusion = Some("failure")

\* The main path of runLetta has ended: it returned, or called process.exit.
MainPathEnded == mainPath \in {"returned", "exited"}

\* C32: the conclusion and the identity outputs of runLetta do not depend on
\* the side calls: whether the fetch of the agent's name, the update of the
\* tracking comment, the labeling of the conversation and the write of the
\* agent-info file succeed, fail or never settle, the conclusion is success
\* exactly for the exit code 0, the identity outputs are the values captured
\* (the conversation id being the captured one or the answer of
\* getLatestConversation), and every step of the main path can be taken
\* whatever state the side calls are in.
C32_SideCallsDoNotMatter ==
    /\ ConclusionSet
          => coreOutputs.conclusion
                = Some(IF awaitedExit = Some(0) THEN "success" ELSE "failure")
    /\ MainPathEnded
          => /\ coreOutputs.agent_id
                   = (IF Truthy(identity.agentId) THEN identity.agentId ELSE None)
             /\ coreOutputs.conversation_id
                   = (IF Truthy(identity.conversationId)
                      THEN identity.conversationId ELSE None)
             /\ coreOutputs.model
                   = (IF Truthy(identity.modelHandle) THEN identity.modelHandle
                      ELSE None)
    /\ (mainPath = "waiting" /\ lettaProcess.state = "exited"
          /\ ~lettaProcess.stdoutOpen) => ENABLED OnClose
    /\ mainPath = "resolved" => ENABLED CleanUp
    /\ mainPath = "cleaned" => ENABLED Conclude
    /\ mainPath = "concluded" => ENABLED OutputAgentId
    /\ mainPath = "fetched" => ENABLED OutputConversationAndModel

\* runLetta returned with the conclusion success while the fetch of the
\* agent's name had failed, the labeling had failed and the update of the
\* comment had not settled.
C32_Witness ==
    /\ mainPath = "returned"
    /\ coreOutputs.conclusion = Some("success")
    /\ coreOutputs.agent_id = Some(<<"a","g","-","1">>)
    /\ sideCalls["getAgentInfo"] = "failed"
    /\ sideCalls["updateConversationSummary"] = "failed"
    /\ sideCalls["patchComment"] = "pending"

\* C33: runLetta always reaches exit handling once the agent process has
\* exited and its stdout has closed: under fair scheduling of the main path
\* it eventually sets a conclusion, whether or not a result event, or any
\* line that parses, was read from the stream.
C33_ExitHandlingReached ==
    (lettaProcess.state = "exited" /\ ~lettaProcess.stdoutOpen) ~> ConclusionSet

\* The agent process exited after printing only a line that does not parse,
\* and the conclusion is set.
C33_Witness ==
    /\ ConclusionSet
    /\ lettaProcess.state = "exited"
    /\ seen = <<"unparseable">>

\* A line that carries an agent id was read from the stream.
AgentIdSeen == \E i \in 1..Len(seen) : seen[i] \in {"init", "result"}

\* C34: on a failed run every identity field captured from the stream is in
\* the outputs when runLetta ends the run with process.exit: an agent id
\* read in any parsed line is captured and is the agent_id output, a captured
\* conversation id is the conversation_id output and a captured model the
\* model output.
C34_IdentityOutputOnFailure ==
    mainPath = "exited"
    => /\ coreOutputs.conclusion = Some("failure")
       /\ AgentIdSeen
             => /\ Truthy(identity.agentId)
                /\ coreOutputs.agent_id = identity.agentId
       /\ Truthy(identity.conversationId)
             => coreOutputs.conversation_id = identity.conversationId
       /\ Truthy(identity.modelHandle)
             => coreOutputs.model = identity.modelHandle

\* The agent process printed its init event, with conversation and model,
\* and exited with code 1; runLetta has ended the run with the three outputs
\* set.
C34_Witness ==
    /\ mainPath = "exited"
    /\ lettaProcess.code = Some(1)
    /\ seen = <<"init">>
    /\ coreOutputs.agent_id = Some(<<"a","g","-","1">>)
    /\ coreOutputs.conversation_id = Some(<<"c","v","-","1">>)
    /\ coreOutputs.model = Some(<<"o","p","u","s">>)

\* ------------------------------------------------------------------------
\* Specification of what runLetta relays of the agent's stdout to the log of
\* the action. A parsed line is the object with the properties the relay can
\* read, None for a property the object lacks; a line that does not parse
\* is its text.
\* ------------------------------------------------------------------------

\* The keys of the objects, in the order the process writes them.
ObjectKeys ==
    <<"type", "subtype", "agent_id", "model", "duration_ms", "content">>

\* JSON.stringify(object, null, 2) for an object given as keys and values:
\* the members in order, a member whose value is undefined left out.
stringify(keys, values) ==
    SelectSeq([i \in 1..Len(keys) |-> <<keys[i], values[i]>>],
              LAMBDA member : IsSome(member[2]))

\* sanitizeJsonOutput(jsonObj, showFullOutput): the string to write, or null.
sanitizeJsonOutput(jsonObj, full) ==
    IF full
    THEN Some(stringify(ObjectKeys, [i \in 1..Len(ObjectKeys) |-> jsonObj[ObjectKeys[i]]]))
    ELSE IF jsonObj.type = Some("init")
    THEN Some(stringify(<<"type", "message", "agent_id", "model">>,
                        <<Some("init"), Some("Letta Code initialized"),
                          jsonObj.agent_id,
                          IF IsSome(jsonObj.model) /\ jsonObj.model[1] # ""
                          THEN jsonObj.model ELSE Some("unknown")>>))
    ELSE IF jsonObj.type = Some("result")
    THEN Some(stringify(<<"type", "subtype", "duration_ms", "agent_id">>,
                        <<Some("result"), jsonObj.subtype, jsonObj.duration_ms,
                          jsonObj.agent_id>>))
    ELSE None

\* A write to process.stdout: of the string of an object, given by its
\* members, or of a text.
WriteJson(members) == [json |-> members, text |-> ""]

WriteText(text) == [json |-> << >>, text |-> text]

\* The stdout handler for the data event of one line that ends with a
\* newline: what it writes to process.stdout.
relayLine(line, full) ==
    IF line.parses
    THEN With(sanitizeJsonOutput(line.object, full), LAMBDA sanitizedOutput :
            IF sanitizedOutput = None THEN << >>
            ELSE <<WriteJson(sanitizedOutput[1]), WriteText("\n")>>)
    ELSE IF full THEN <<WriteText(line.text), WriteText("\n")>>
    ELSE << >>

\* The objects the agent process prints: its init event (type system,
\* subtype init), an object of type init, the result event, a message; each
\* with or without a property that is outside every whitelist.
RelayObjects ==
    {[type |-> Some(t[1]), subtype |-> t[2], agent_id |-> Some("ag-1"),
      model |-> m, duration_ms |-> t[3], content |-> c] :
        t \in {<<"system", Some("init"), None>>, <<"init", None, None>>,
               <<"result", Some("success"), Some("5000")>>,
               <<"message", None, None>>},
        m \in {None, Some("opus")},
        c \in {None, Some("secret")}}

RelayLines ==
    {[parses |-> TRUE, object |-> o, text |-> ""] : o \in RelayObjects}
    \cup {[parses |-> FALSE,
           object |-> [type |-> None, subtype |-> None, agent_id |-> None,
                       model |-> None, duration_ms |-> None, content |-> None],
           text |-> "Starting agent"]}

RelayInit ==
    /\ now = 0
    /\ CodecIdle
    /\ BuilderIdle
    /\ CleanupIdle
    /\ SupervisorIdle
    /\ OutputIdle
    /\ ServedIdle
    /\ StreamIdle
    /\ UpdateIdle
    /\ ExitIdle
    /\ RenderIdle
    /\ LinkedIdle
    /\ TriggerIdle
    /\ GitHubIdle
    /\ ResolverIdle
    /\ PrepareIdle
    /\ RunIdle("running")
    /\ showFullOutput \in BOOLEAN
    /\ relayInput \in SeqsUpTo(RelayLines, MaxLines)
    /\ relayAt = 0
    /\ relayLog = << >>

\* lettaProcess.stdout.on("data") for the next line.
RelayData ==
    /\ relayAt < Len(relayInput)
    /\ relayAt' = relayAt + 1
    /\ relayLog' = relayLog \o relayLine(relayInput[relayAt + 1], showFullOutput)
    /\ UNCHANGED <<cleanupVars, showFullOutput, relayInput>>
    /\ UNCHANGED <<cleanupVars, supervisorVars, outputVars, servedVars, streamVars,
                   updateVars, exitVars, renderVars, linkedVars, triggerVars,
                   now, codecVars, builderVars, githubVars, resolverVars,
                   prepareVars, runVars>>

RelayNext == RelayData

SpecRelay == RelayInit /\ [][RelayNext]_vars

\* ------------------------------------------------------------------------
\* Claims about the relay of the agent's stdout
\* ------------------------------------------------------------------------

\* The line is the initialization event the agent process emits, as the
\* stdout handler recognizes it.
IsInitializationLine(line) ==
    /\ line.parses
    /\ line.object.type = Some("system")
    /\ line.object.subtype = Some("init")

IsResultLine(line) == line.parses /\ line.object.type = Some("result")

\* What the log shows of a line when full output is disabled: of the
\* initialization event its agent id and model under a fixed message, of the
\* result event its whitelisted properties, of any other line nothing.
RelayedWhenHidden(line) ==
    IF IsInitializationLine(line)
    THEN <<WriteJson(<<<<"type", Some("init")>>,
                       <<"message", Some("Letta Code initialized")>>,
                       <<"agent_id", line.object.agent_id>>,
                       <<"model", IF line.object.model = None THEN Some("unknown")
                                  ELSE line.object.model>>>>),
           WriteText("\n")>>
    ELSE IF IsResultLine(line)
    THEN <<WriteJson(SelectSeq(<<<<"type", Some("result")>>,
                                 <<"subtype", line.object.subtype>>,
                                 <<"duration_ms", line.object.duration_ms>>,
                                 <<"agent_id", line.object.agent_id>>>>,
                               LAMBDA member : member[2] # None)),
           WriteText("\n")>>
    ELSE << >>

RECURSIVE LogWhenHidden(_)
LogWhenHidden(lines) ==
    IF lines = << >> THEN << >>
    ELSE RelayedWhenHidden(Head(lines)) \o LogWhenHidden(Tail(lines))

\* C35: with full output disabled, the log depends only on the
\* initialization and result events and, within them, on their whitelisted
\* properties: the initialization event is relayed in its sanitized form, the
\* result event with its whitelisted properties, every other object and
\* every line that does not parse is suppressed.
C35_OnlyWhitelistedRelayed ==
    ~showFullOutput => relayLog = LogWhenHidden(SubSeq(relayInput, 1, relayAt))

\* ------------------------------------------------------------------------
\* Claims about the terminal rendering without an agent, and of the link to
\* create a pull request
\* ------------------------------------------------------------------------

\* C36: when no agent id is known, the body updateCommentBody returns holds
\* no identity footer and no metadata marker, for every current body,
\* including one that holds a provisional footer or a marker.
C36_NoAgentNoFooterNoMarker ==
    (IsSome(rendered) /\ ~Truthy(renderInput[1].agentId))
    => /\ CountOf(rendered[1], METADATA_START) = 0
       /\ CountOf(rendered[1], AGENT_LABEL) = 0

\* The URLs of the links the agent writes: one that parses, one with a space
\* in its query, one whose query holds a percent sign that encodes nothing,
\* and two without a scheme.
PrLinkUrls ==
    { <<"h","t","t","p","s",":","/","/","g",".","c","o","/","c">>,
      <<"h","t","t","p","s",":","/","/","g",".","c","o","/","c","?","t","=","a"," ","b">>,
      <<"h","t","t","p","s",":","/","/","g",".","c","o","/","c","?","t","=","%"," ","b">>,
      <<"g",".","c","o","/","c">>,
      <<"/","c","?","t","=","a",":","b">> }

\* Where the link stands in the content: alone, on the last line, on the
\* first line, or on both.
PrLinkPlaces == {"alone", "last", "first", "both"}

PrLinkText(url) ==
    CREATE_OPEN \o <<"a">> \o PR_CLOSE \o url \o <<")">>

PrLinkBody(parts) ==
    CASE parts.place = "alone" -> PrLinkText(parts.url)
      [] parts.place = "last" -> AGENT_CONTENT \o <<"\n","\n">> \o PrLinkText(parts.url)
      [] parts.place = "first" -> PrLinkText(parts.url) \o <<"\n","\n">> \o AGENT_CONTENT
      [] parts.place = "both" ->
            PrLinkText(parts.url) \o <<" ">> \o AGENT_CONTENT \o <<"\n">>
                \o PrLinkText(parts.url)

PrLinkInit ==
    /\ now = 0
    /\ CodecIdle
    /\ BuilderIdle
    /\ CleanupIdle
    /\ RelayIdle
    /\ SupervisorIdle
    /\ OutputIdle
    /\ ServedIdle
    /\ StreamIdle
    /\ UpdateIdle
    /\ ExitIdle
    /\ TriggerIdle
    /\ LinkedIdle
    /\ GitHubIdle
    /\ ResolverIdle
    /\ PrepareIdle
    /\ RunIdle("idle")
    /\ \E url \in PrLinkUrls, place \in PrLinkPlaces, failed \in BOOLEAN,
          agent \in {None, Some(<<"a","g","-","1">>)} :
          /\ renderParts = Some([url |-> url, place |-> place])
          /\ renderInput = Some([currentBody |-> PrLinkBody([url |-> url, place |-> place]),
                                 actionFailed |-> failed,
                                 jobUrl |-> JOB_LINK,
                                 triggerUsername |-> Some(TRIGGER_USERNAME),
                                 agentId |-> agent,
                                 conversationId |-> None,
                                 model |-> None])
    /\ rendered = None

SpecPrLink == PrLinkInit /\ [][RenderNext]_vars

SEPARATOR == <<"\n","\n","-","-","-","\n">>

\* The body section of a rendered comment: what follows the first separator.
bodySection(text) == sliceFrom(text, indexOf(text, SEPARATOR) + Len(SEPARATOR))

\* The header line of a rendered comment: what precedes the first separator.
headerLine(text) == slice(text, 0, indexOf(text, SEPARATOR))

\* The pattern of updateCommentBody finds a link with a URL in the content.
PrLinkFound ==
    /\ IsSome(renderInput)
    /\ \E m \in {prLinkMatch(extractContent(renderInput[1].currentBody))} :
          IsSome(m) /\ m[1].url # << >>

\* C37: a link to create a pull request found in the content is not in the
\* body section of the rendered comment; when ensureProperlyEncodedUrl returns
\* a URL for it, the links of the header line hold that URL.
C37_PrLinkLeavesBody ==
    (IsSome(rendered) /\ PrLinkFound)
    => /\ CountOf(bodySection(rendered[1]), CREATE_OPEN) = 0
       /\ \A encoded \in {ensureProperlyEncodedUrl(renderParts[1].url)} :
            IsSome(encoded)
            => includes(headerLine(rendered[1]),
                        <<ARROW,"]","(">> \o encoded[1] \o <<")">>)

\* ------------------------------------------------------------------------
\* Branch clean-up
\* ------------------------------------------------------------------------

MaxCommitsAhead == 2

GITHUB_SERVER_URL == <<"h","t","t","p","s",":","/","/","g","i","t","h","u","b",".","c","o","m">>

\* `\n[View branch](${branchUrl})` for the repository o/r.
viewBranchLink(lettaBranch) ==
    <<"\n","[","V","i","e","w"," ","b","r","a","n","c","h","]","(">>
        \o GITHUB_SERVER_URL \o <<"/","o","/","r","/","t","r","e","e","/">>
        \o lettaBranch \o <<")">>

\* What checkAndCommitOrDeleteBranch does with the comparison's
\* total_commits: mark the branch for deletion, look at the working tree, or
\* link the branch.
comparisonDecision_DeletesAhead(totalCommits, useCommitSigning) ==
    IF totalCommits <= 1
    THEN IF ~useCommitSigning THEN "status" ELSE "delete"
    ELSE "link"

comparisonDecision(totalCommits, useCommitSigning) ==
    IF totalCommits = 0
    THEN IF ~useCommitSigning THEN "status" ELSE "delete"
    ELSE "link"

CleanupOthers ==
    <<relayVars, supervisorVars, outputVars, servedVars, streamVars, updateVars,
      exitVars, renderVars, linkedVars, triggerVars, now, codecVars,
      builderVars, githubVars, resolverVars, prepareVars, runVars>>

LettaBranches == {None, Some(<< >>), Some(<<"l","e","t","t","a","/","1">>)}

CleanupInit ==
    /\ now = 0
    /\ CodecIdle
    /\ BuilderIdle
    /\ RelayIdle
    /\ SupervisorIdle
    /\ OutputIdle
    /\ ServedIdle
    /\ StreamIdle
    /\ UpdateIdle
    /\ ExitIdle
    /\ RenderIdle
    /\ TriggerIdle
    /\ LinkedIdle
    /\ GitHubIdle
    /\ ResolverIdle
    /\ PrepareIdle
    /\ RunIdle("idle")
    /\ \E lettaBranch \in LettaBranches, useCommitSigning \in BOOLEAN,
          exists \in BOOLEAN, commits \in 0..MaxCommitsAhead, dirty \in BOOLEAN :
          /\ ~exists => commits = 0
          /\ cleanupInput = Some([lettaBranch |-> lettaBranch,
                                  useCommitSigning |-> useCommitSigning])
          /\ remoteBranch = [exists |-> exists, commits |-> commits]
          /\ treeDirty = dirty
          /\ cleanupTrace = [NoCleanupTrace EXCEPT !.exists = exists,
                                                   !.commits = commits,
                                                   !.dirty = dirty]
    /\ cleanupAt = "called"
    /\ shouldDeleteBranch = FALSE
    /\ branchLink = << >>
    /\ cleanupResult = None

\* if (lettaBranch)
EnterCleanup ==
    /\ cleanupAt = "called"
    /\ cleanupAt' = IF Truthy(cleanupInput[1].lettaBranch) THEN "getBranch" ELSE "finish"
    /\ UNCHANGED <<cleanupInput, remoteBranch, treeDirty, shouldDeleteBranch,
                   branchLink, cleanupTrace, cleanupResult, CleanupOthers>>

\* octokit.rest.repos.getBranch: it returns for a branch that exists, and
\* throws with status 404 for one that does not, or with another error.
GetBranch(outcome) ==
    /\ cleanupAt = "getBranch"
    /\ outcome = "ok" => remoteBranch.exists
    /\ outcome = "404" => ~remoteBranch.exists
    /\ IF outcome = "ok"
       THEN /\ cleanupAt' = "compare"
            /\ UNCHANGED cleanupResult
       ELSE /\ cleanupAt' = "returned"
            /\ cleanupResult' = Some([shouldDeleteBranch |-> FALSE, branchLink |-> << >>])
    /\ UNCHANGED <<cleanupInput, remoteBranch, treeDirty, shouldDeleteBranch,
                   branchLink, cleanupTrace, CleanupOthers>>

\* octokit.rest.repos.compareCommitsWithBasehead and what follows it.
CompareCommits(outcome) ==
    /\ cleanupAt = "compare"
    /\ cleanupTrace' = [cleanupTrace EXCEPT !.compared = outcome]
    /\ \E decision \in {IF outcome = "ok"
                        THEN comparisonDecision(remoteBranch.commits,
                                                cleanupInput[1].useCommitSigning)
                        ELSE "link"} :
          /\ cleanupAt' = IF decision = "status" THEN "status" ELSE "finish"
          /\ shouldDeleteBranch' = (decision = "delete")
          /\ branchLink' = IF decision = "link"
                           THEN viewBranchLink(cleanupInput[1].lettaBranch[1])
                           ELSE branchLink
    /\ UNCHANGED <<cleanupInput, remoteBranch, treeDirty, cleanupResult, CleanupOthers>>

\* git status --porcelain and hasUncommittedChanges.
GitStatus(outcome) ==
    /\ cleanupAt = "status"
    /\ cleanupTrace' = [cleanupTrace EXCEPT !.status = outcome]
    /\ cleanupAt' = IF outcome = "ok" /\ treeDirty THEN "commit" ELSE "finish"
    /\ shouldDeleteBranch' = (outcome = "ok" /\ ~treeDirty)
    /\ branchLink' = IF outcome = "ok" THEN branchLink
                     ELSE viewBranchLink(cleanupInput[1].lettaBranch[1])
    /\ UNCHANGED <<cleanupInput, remoteBranch, treeDirty, cleanupResult, CleanupOthers>>

\* git add -A, git commit and git push: every one of them may throw.
CommitAndPush(outcome) ==
    /\ cleanupAt = "commit"
    /\ treeDirty' = (outcome \in {"addFails", "commitFails"})
    /\ remoteBranch' = IF outcome = "ok"
                       THEN [remoteBranch EXCEPT !.commits = @ + 1]
                       ELSE remoteBranch
    /\ cleanupTrace' = IF outcome = "ok" THEN cleanupTrace
                       ELSE [cleanupTrace EXCEPT !.status = "failed"]
    /\ branchLink' = viewBranchLink(cleanupInput[1].lettaBranch[1])
    /\ cleanupAt' = "finish"
    /\ UNCHANGED <<cleanupInput, shouldDeleteBranch, cleanupResult, CleanupOthers>>

\* octokit.rest.git.deleteRef, whose failure is logged, and the return.
DeleteRef(ok) ==
    /\ cleanupAt = "finish"
    /\ shouldDeleteBranch /\ Truthy(cleanupInput[1].lettaBranch)
    /\ remoteBranch' = IF ok THEN [exists |-> FALSE, commits |-> 0] ELSE remoteBranch
    /\ cleanupTrace' = [cleanupTrace EXCEPT !.deleteCalled = TRUE]
    /\ cleanupResult' = Some([shouldDeleteBranch |-> shouldDeleteBranch,
                              branchLink |-> branchLink])
    /\ cleanupAt' = "returned"
    /\ UNCHANGED <<cleanupInput, treeDirty, shouldDeleteBranch, branchLink, CleanupOthers>>

\* return { shouldDeleteBranch, branchLink } without a deletion.
ReturnCleanup ==
    /\ cleanupAt = "finish"
    /\ ~(shouldDeleteBranch /\ Truthy(cleanupInput[1].lettaBranch))
    /\ cleanupResult' = Some([shouldDeleteBranch |-> shouldDeleteBranch,
                              branchLink |-> branchLink])
    /\ cleanupAt' = "returned"
    /\ UNCHANGED <<cleanupInput, remoteBranch, treeDirty, shouldDeleteBranch,
                   branchLink, cleanupTrace, CleanupOthers>>

CleanupNext ==
    \/ EnterCleanup
    \/ \E outcome \in {"ok", "404", "error"} : GetBranch(outcome)
    \/ \E outcome \in {"ok", "failed"} : CompareCommits(outcome)
    \/ \E outcome \in {"ok", "failed"} : GitStatus(outcome)
    \/ \E outcome \in {"ok", "addFails", "commitFails", "pushFails"} : CommitAndPush(outcome)
    \/ \E ok \in BOOLEAN : DeleteRef(ok)
    \/ ReturnCleanup

SpecCleanup == CleanupInit /\ [][CleanupNext]_vars

\* C38: deleteRef is called only for a branch that exists remotely, whose
\* comparison with the base branch succeeded and reported zero commits, and
\* with commit signing on or a status check that succeeded on a working tree
\* without uncommitted changes; and a result with a non-empty branchLink has
\* shouldDeleteBranch false.
C38_DeleteOnlyEmptyBranch ==
    /\ cleanupTrace.deleteCalled
        => /\ cleanupTrace.exists
           /\ cleanupTrace.compared = "ok"
           /\ cleanupTrace.commits = 0
           /\ \/ cleanupInput[1].useCommitSigning
              \/ cleanupTrace.status = "ok" /\ ~cleanupTrace.dirty
    /\ \A result \in {cleanupResult} :
          (IsSome(result) /\ result[1].branchLink # << >>)
          => ~result[1].shouldDeleteBranch

\* Without commit signing, the empty branch of a clean working tree was
\* deleted.
C38_Witness ==
    /\ cleanupTrace.deleteCalled
    /\ ~cleanupInput[1].useCommitSigning
    /\ IsSome(cleanupResult)
    /\ cleanupResult[1].shouldDeleteBranch
    /\ ~remoteBranch.exists

====
